---- MODULE Spec2Model ----
(***************************************************************************)
(* Construction-time behaviour of the infrastructure components of the     *)
(* repository: VpcNetwork, VpcGatewayEndpoint, Ec2Instance, S3Bucket,      *)
(* IamInstanceProfile, LaunchTemplate, AutoScalingGroup, TargetGroup and   *)
(* ApplicationLoadBalancer (deploy-asg/infra), SecurityGroup and its       *)
(* presets (infra/security_groups/security_groups.py), and of the          *)
(* compositions that call them: create_common_security_groups and the      *)
(* programs branch/tech-Branch, deploy-asg/branch/tech-branch-wst and      *)
(* infra/ec2.                                                              *)
(*                                                                         *)
(* One behaviour is one constructor call, or one run of a composition.     *)
(* The state is the constructor's position (pc), the class being           *)
(* constructed (cls), the caller's args dictionary, the constructor's      *)
(* local variables, the component's attributes (self), the resources       *)
(* registered with the engine so far, in order, the error raised, if any,  *)
(* the state of the composition (script), and the args dictionary as it    *)
(* was when the call was made (given), which the constructor never writes. *)
(*                                                                         *)
(* Python values: a dict is a function whose DOMAIN is the set of keys     *)
(* present (an absent key is what .get() answers None for); a list is a    *)
(* sequence; a string that the code takes apart or formats is a sequence   *)
(* of one-character strings; a resource handle (x.id, x.arn) is the        *)
(* resource's name; a resource name f"{name}-kind-{i}" is <<"kind", i>>.   *)
(***************************************************************************)
EXTENDS Integers, Sequences, FiniteSets, TLC

VARIABLES pc, cls, args, locals, self, resources, raised, script,
          given   \* the args dictionary as the caller passed it

vars == <<pc, cls, args, locals, self, resources, raised, script, given>>

(***************************************************************************)
(* Bounds of the model.                                                    *)
(***************************************************************************)
\* longest availability_zones list a caller passes
MaxZones == 11
\* longest public_subnet_cidrs / private_subnet_cidrs list a caller passes
MaxCidrs == 2
\* most zones the region reports as available
MaxRegionZones == 3

(***************************************************************************)
(* Python helpers.                                                         *)
(***************************************************************************)
Min(a, b) == IF a < b THEN a ELSE b

EmptyDict == <<>>

\* Python's None, where a string is expected
None == "<None>"

\* a resource id (x.id, x.arn, x.name) is the resource's name, a tuple; None
\* or "" where a resource id is expected is the empty tuple
NoResource == <<>>

\* bool(s) of a string or None
Truthy(s) == s \notin {None, ""}

\* d.get(k, default)
Get(d, k, default) == IF k \in DOMAIN d THEN d[k] ELSE default

\* d.get(k) is not None
Has(d, k) == k \in DOMAIN d

\* the dicts that hold key k with a value of S, or do not hold k
Opt(k, S) == {EmptyDict} \cup {k :> v : v \in S}

\* d.setdefault(k, v): a key already present keeps its value
Put_KeepExisting(d, k, v) == d @@ (k :> v)

\* {**d, k: v} and d[k] = v
Put(d, k, v) == (k :> v) @@ d

\* a zip that stops one pair early
Zip_OffByOne(a, b) == [k \in 1..(Min(Len(a), Len(b)) - 1) |-> <<a[k], b[k]>>]

\* zip(a, b): as long as the shorter of the two
Zip(a, b) == [k \in 1..Min(Len(a), Len(b)) |-> <<a[k], b[k]>>]

RECURSIVE Concat(_)
\* the concatenation of a sequence of sequences
Concat(ss) == IF ss = <<>> THEN <<>> ELSE Head(ss) \o Concat(Tail(ss))

Digit(d) == CASE d = 0 -> "0" [] d = 1 -> "1" [] d = 2 -> "2" [] d = 3 -> "3"
              [] d = 4 -> "4" [] d = 5 -> "5" [] d = 6 -> "6" [] d = 7 -> "7"
              [] d = 8 -> "8" [] d = 9 -> "9"

RECURSIVE Str(_)
\* str(i) of a non-negative int, as an f-string formats it
Str(i) == IF i < 10 THEN <<Digit(i)>> ELSE Str(i \div 10) \o <<Digit(i % 10)>>

RECURSIVE Split(_, _)
\* s.split(sep) for a one-character separator
Split(s, sep) ==
    IF \A k \in 1..Len(s) : s[k] # sep
    THEN <<s>>
    ELSE LET p == CHOOSE k \in 1..Len(s) :
                      s[k] = sep /\ \A j \in 1..(k - 1) : s[j] # sep
         IN  <<SubSeq(s, 1, p - 1)>> \o Split(SubSeq(s, p + 1, Len(s)), sep)

RECURSIVE Join(_, _)
\* sep.join(parts)
Join(parts, sep) ==
    IF parts = <<>> THEN <<>>
    ELSE IF Len(parts) = 1 THEN parts[1]
    ELSE parts[1] \o <<sep>> \o Join(Tail(parts), sep)

\* xs[0:2]
FirstTwo(xs) == SubSeq(xs, 1, Min(2, Len(xs)))


(***************************************************************************)
(* Resources registered with the engine.                                   *)
(***************************************************************************)
\* a resource: its provider type, its name, its parent (opts.parent) and
\* the arguments of the create request
Res(type, name, parent, props) ==
    [type |-> type, name |-> name, parent |-> parent, props |-> props]

\* opts=pulumi.ResourceOptions(parent=self)
Component == <<"self">>

\* the registered resources of one type, in order of registration
OfType(rs, type) == SelectSeq(rs, LAMBDA r : r.type = type)

(***************************************************************************)
(* VpcNetwork.__init__                                                     *)
(***************************************************************************)
\* "10.0.0.0/16", the default of cidr_block
DefaultCidrBlock == <<"1", "0", ".", "0", ".", "0", ".", "0", "/", "1", "6">>

\* "172.20.0.0/16", a cidr_block a caller passes
CallerCidrBlock ==
    <<"1", "7", "2", ".", "2", "0", ".", "0", ".", "0", "/", "1", "6">>

\* the name of the i-th availability zone
ZoneName(i) == <<"az", i>>

\* a list of n zone names
ZoneList(n) == [k \in 1..n |-> ZoneName(k)]

\* the subnet CIDR lists a caller passes: "192.168.{first + k}.0/24"
CallerCidrs(first, n) ==
    [k \in 1..n |->
        <<"1", "9", "2", ".", "1", "6", "8", ".">> \o Str(first + k)
            \o <<".", "0", "/", "2", "4">>]

\* the args dictionaries of the VpcNetwork calls of the model
VpcArgs ==
    {a @@ b @@ c @@ d @@ e @@ f :
        a \in Opt("cidr_block", {CallerCidrBlock}),
        b \in Opt("availability_zones", {ZoneList(n) : n \in 0..MaxZones}),
        c \in Opt("public_subnet_cidrs", {CallerCidrs(0, n) : n \in 0..MaxCidrs}),
        d \in Opt("private_subnet_cidrs", {CallerCidrs(100, n) : n \in 0..MaxCidrs}),
        e \in Opt("enable_nat_gateway", BOOLEAN),
        f \in Opt("enable_ipv6", {TRUE})}

\* lines 30-37: the component registers itself and reads its configuration
VpcGetConfig ==
    /\ cls = "VpcNetwork" /\ pc = "start"
    /\ self' = Put(self, "component", "custom:network:VpcNetwork")
    /\ locals' = [cidr_block |-> Get(args, "cidr_block", DefaultCidrBlock),
                  enable_nat_gateway |-> Get(args, "enable_nat_gateway", TRUE),
                  enable_ipv6 |-> Get(args, "enable_ipv6", FALSE)]
    /\ pc' = "vpc_zones"
    /\ UNCHANGED <<cls, args, resources, raised>>
    /\ UNCHANGED <<script, given>>

\* azs.names[:2]
FirstTwoZones(names) == FirstTwo(names)

\* lines 41-44: the caller's zones, or the first two the region reports
VpcGetZones ==
    /\ cls = "VpcNetwork" /\ pc = "vpc_zones"
    /\ IF Has(args, "availability_zones") /\ args["availability_zones"] # <<>>
       THEN locals' = Put(locals, "availability_zones", args["availability_zones"])
       ELSE \E n \in 1..MaxRegionZones :
               locals' = Put(locals, "availability_zones",
                             FirstTwoZones(ZoneList(n)))
    /\ pc' = "vpc_cidrs"
    /\ UNCHANGED <<cls, args, self, resources, raised>>
    /\ UNCHANGED <<script, given>>

\* lines 52-53: ".".join(cidr_block.split(".")[0:2])
CidrBase(cidr_block) == Join(FirstTwo(Split(cidr_block, ".")), ".")

\* the third octet one too high
SubnetCidr_OneBased(base, i) ==
    base \o <<".">> \o Str(i + 1) \o <<".", "0", "/", "2", "4">>

\* f"{base}.{i}.0/24"
SubnetCidr(base, i) == base \o <<".">> \o Str(i) \o <<".", "0", "/", "2", "4">>

\* lines 54-56: the derived public subnet CIDRs of n zones
DerivePublicCidrs(cidr_block, n) ==
    [k \in 1..n |-> SubnetCidr(CidrBase(cidr_block), k - 1)]

\* the private subnets at offset 16 instead of 10
DerivePrivateCidrs_Offset16(cidr_block, n) ==
    [k \in 1..n |->
        Join(FirstTwo(Split(cidr_block, ".")), ".")
            \o <<".">> \o Str((k - 1) + 16) \o <<".", "0", "/", "2", "4">>]

\* lines 61-63: the derived private subnet CIDRs of n zones
DerivePrivateCidrs(cidr_block, n) ==
    [k \in 1..n |-> SubnetCidr(CidrBase(cidr_block), (k - 1) + 10)]

\* lines 47-63: the caller's subnet CIDRs, or the derived ones
VpcCalcCidrs ==
    /\ cls = "VpcNetwork" /\ pc = "vpc_cidrs"
    /\ LET n == Len(locals.availability_zones)
           pub == IF Has(args, "public_subnet_cidrs")
                     /\ args["public_subnet_cidrs"] # <<>>
                  THEN args["public_subnet_cidrs"]
                  ELSE DerivePublicCidrs(locals.cidr_block, n)
           priv == IF Has(args, "private_subnet_cidrs")
                      /\ args["private_subnet_cidrs"] # <<>>
                   THEN args["private_subnet_cidrs"]
                   ELSE DerivePrivateCidrs(locals.cidr_block, n)
       IN  locals' = Put(Put(locals, "public_subnet_cidrs", pub),
                         "private_subnet_cidrs", priv)
    /\ pc' = "vpc_vpc"
    /\ UNCHANGED <<cls, args, self, resources, raised>>
    /\ UNCHANGED <<script, given>>

\* lines 66-73
VpcCreateVpc ==
    /\ cls = "VpcNetwork" /\ pc = "vpc_vpc"
    /\ resources' = Append(resources,
            Res("Vpc", <<"vpc">>, Component, [cidr_block |-> locals.cidr_block]))
    /\ self' = Put(self, "vpc", <<"vpc">>)
    /\ pc' = "vpc_ipv6"
    /\ UNCHANGED <<cls, args, locals, raised>>
    /\ UNCHANGED <<script, given>>

\* lines 76-84
VpcCreateIpv6 ==
    /\ cls = "VpcNetwork" /\ pc = "vpc_ipv6"
    /\ IF locals.enable_ipv6
       THEN /\ resources' = Append(resources,
                    Res("VpcIpv6CidrBlockAssociation", <<"ipv6-cidr">>, self.vpc,
                        [vpc_id |-> self.vpc]))
            /\ self' = Put(self, "ipv6_cidr_block", <<"ipv6-cidr">>)
       ELSE UNCHANGED <<resources, self>>
    /\ pc' = "vpc_igw"
    /\ UNCHANGED <<cls, args, locals, raised>>
    /\ UNCHANGED <<script, given>>

\* lines 87-92
VpcCreateInternetGateway ==
    /\ cls = "VpcNetwork" /\ pc = "vpc_igw"
    /\ resources' = Append(resources,
            Res("InternetGateway", <<"igw">>, self.vpc, [vpc_id |-> self.vpc]))
    /\ self' = Put(self, "internet_gateway", <<"igw">>)
    /\ pc' = "vpc_prefix"
    /\ UNCHANGED <<cls, args, locals, raised>>
    /\ UNCHANGED <<script, given>>

\* lines 95-102
VpcCreatePrefixList ==
    /\ cls = "VpcNetwork" /\ pc = "vpc_prefix"
    /\ resources' = Append(resources,
            Res("ManagedPrefixList", <<"prefix-list">>, self.vpc,
                [address_family |-> "IPv4"]))
    /\ self' = Put(self, "ip_prefix", <<"prefix-list">>)
    /\ pc' = "vpc_public_subnets"
    /\ UNCHANGED <<cls, args, locals, raised>>
    /\ UNCHANGED <<script, given>>

\* lines 106-115 and 120-129: the subnets of one kind, one per (az, cidr)
\* pair of zip(availability_zones, cidrs)
Subnets(kind, public, zones, cidrs, vpc) ==
    [k \in 1..Len(Zip(zones, cidrs)) |->
        Res("Subnet", <<kind, k - 1>>, vpc,
            [vpc_id |-> vpc,
             cidr_block |-> Zip(zones, cidrs)[k][2],
             availability_zone |-> Zip(zones, cidrs)[k][1],
             map_public_ip_on_launch |-> public])]

\* every handle that of the first resource
Names_AllFirst(rs) == [k \in 1..Len(rs) |-> rs[1].name]

\* the names (handles) of a sequence of resources
Names(rs) == [k \in 1..Len(rs) |-> rs[k].name]

\* lines 105-116
VpcCreatePublicSubnets ==
    /\ cls = "VpcNetwork" /\ pc = "vpc_public_subnets"
    /\ LET new == Subnets("public-subnet", TRUE, locals.availability_zones,
                          locals.public_subnet_cidrs, self.vpc)
       IN  /\ resources' = resources \o new
           /\ self' = Put(self, "public_subnets", Names(new))
    /\ pc' = "vpc_private_subnets"
    /\ UNCHANGED <<cls, args, locals, raised>>
    /\ UNCHANGED <<script, given>>

\* lines 119-130
VpcCreatePrivateSubnets ==
    /\ cls = "VpcNetwork" /\ pc = "vpc_private_subnets"
    /\ LET new == Subnets("private-subnet", FALSE, locals.availability_zones,
                          locals.private_subnet_cidrs, self.vpc)
       IN  /\ resources' = resources \o new
           /\ self' = Put(self, "private_subnets", Names(new))
    /\ pc' = "vpc_public_rt"
    /\ UNCHANGED <<cls, args, locals, raised>>
    /\ UNCHANGED <<script, given>>

\* "0.0.0.0/0"
AnyIpv4 == "0.0.0.0/0"

\* lines 133-147: the shared public route table and its default route
VpcCreatePublicRouteTable ==
    /\ cls = "VpcNetwork" /\ pc = "vpc_public_rt"
    /\ resources' = resources \o
            <<Res("RouteTable", <<"public-rt">>, self.vpc, [vpc_id |-> self.vpc]),
              Res("Route", <<"public-route">>, <<"public-rt">>,
                  [route_table_id |-> <<"public-rt">>,
                   destination_cidr_block |-> AnyIpv4,
                   gateway_id |-> self.internet_gateway])>>
    /\ self' = Put(Put(self, "public_route_table", <<"public-rt">>),
                   "public_route", <<"public-route">>)
    /\ pc' = "vpc_public_rta"
    /\ UNCHANGED <<cls, args, locals, raised>>
    /\ UNCHANGED <<script, given>>

\* lines 150-158
VpcAssociatePublicSubnets ==
    /\ cls = "VpcNetwork" /\ pc = "vpc_public_rta"
    /\ LET new == [k \in 1..Len(self.public_subnets) |->
                      Res("RouteTableAssociation", <<"public-rta", k - 1>>,
                          self.public_route_table,
                          [subnet_id |-> self.public_subnets[k],
                           route_table_id |-> self.public_route_table])]
       IN  /\ resources' = resources \o new
           /\ self' = Put(self, "public_route_table_associations", Names(new))
    /\ pc' = "vpc_nat"
    /\ UNCHANGED <<cls, args, locals, raised>>
    /\ UNCHANGED <<script, given>>

\* NAT gateways created whatever enable_nat_gateway says
NatSubnets_Always(enable_nat_gateway, public_subnets) == public_subnets

\* a single NAT gateway, in the first public subnet
NatSubnets_Single(enable_nat_gateway, public_subnets) ==
    IF enable_nat_gateway
    THEN SubSeq(public_subnets, 1, Min(1, Len(public_subnets)))
    ELSE <<>>

\* lines 163-164: the subnets that get a NAT gateway and an elastic IP
NatSubnets(enable_nat_gateway, public_subnets) ==
    IF enable_nat_gateway THEN public_subnets ELSE <<>>

\* lines 161-182
VpcCreateNatGateways ==
    /\ cls = "VpcNetwork" /\ pc = "vpc_nat"
    /\ LET subnets == NatSubnets(locals.enable_nat_gateway, self.public_subnets)
           eip(i) == Res("Eip", <<"nat-eip", i>>, self.vpc, [domain |-> "vpc"])
           nat(i) == Res("NatGateway", <<"nat-gw", i>>, subnets[i + 1],
                         [subnet_id |-> subnets[i + 1],
                          allocation_id |-> <<"nat-eip", i>>])
       IN  /\ resources' = resources \o
                   Concat([k \in 1..Len(subnets) |-> <<eip(k - 1), nat(k - 1)>>])
           /\ self' = Put(Put(self, "nat_eips",
                              [k \in 1..Len(subnets) |-> <<"nat-eip", k - 1>>]),
                          "nat_gateways",
                          [k \in 1..Len(subnets) |-> <<"nat-gw", k - 1>>])
    /\ pc' = "vpc_private_rt"
    /\ UNCHANGED <<cls, args, locals, raised>>
    /\ UNCHANGED <<script, given>>

\* only the first private route table is routed
HasNatRoute_FirstOnly(enable_nat_gateway, i, nat_gateways) ==
    enable_nat_gateway /\ i = 0 /\ i < Len(nat_gateways)

\* line 200: private route table i gets a default route
HasNatRoute(enable_nat_gateway, i, nat_gateways) ==
    enable_nat_gateway /\ i < Len(nat_gateways)

\* every private default route through the first NAT gateway
PrivateRoute_FirstNat(i, nat_gateways) ==
    Res("Route", <<"private-route", i>>, <<"private-rt", i>>,
        [route_table_id |-> <<"private-rt", i>>,
         destination_cidr_block |-> "0.0.0.0/0",
         nat_gateway_id |-> nat_gateways[1]])

\* lines 201-207: the default route of private route table i
PrivateRoute(i, nat_gateways) ==
    Res("Route", <<"private-route", i>>, <<"private-rt", i>>,
        [route_table_id |-> <<"private-rt", i>>,
         destination_cidr_block |-> AnyIpv4,
         nat_gateway_id |-> nat_gateways[i + 1]])

\* lines 185-217: per private subnet a route table, its default route when
\* there is a NAT gateway of the same index, and the association
VpcCreatePrivateRouteTables ==
    /\ cls = "VpcNetwork" /\ pc = "vpc_private_rt"
    /\ LET n == Len(self.private_subnets)
           routed(i) == HasNatRoute(locals.enable_nat_gateway, i, self.nat_gateways)
           rt(i) == Res("RouteTable", <<"private-rt", i>>, self.vpc,
                        [vpc_id |-> self.vpc])
           rta(i) == Res("RouteTableAssociation", <<"private-rta", i>>,
                         <<"private-rt", i>>,
                         [subnet_id |-> self.private_subnets[i + 1],
                          route_table_id |-> <<"private-rt", i>>])
           body(i) == <<rt(i)>>
                      \o (IF routed(i)
                          THEN <<PrivateRoute(i, self.nat_gateways)>> ELSE <<>>)
                      \o <<rta(i)>>
           new == Concat([k \in 1..n |-> body(k - 1)])
       IN  /\ resources' = resources \o new
           /\ self' = Put(Put(Put(self, "private_route_tables",
                                  [k \in 1..n |-> <<"private-rt", k - 1>>]),
                              "private_routes",
                              Names(SelectSeq(new, LAMBDA r : r.type = "Route"))),
                          "private_route_table_associations",
                          [k \in 1..n |-> <<"private-rta", k - 1>>])
    /\ pc' = "vpc_outputs"
    /\ UNCHANGED <<cls, args, locals, raised>>
    /\ UNCHANGED <<script, given>>

\* lines 220-231
VpcRegisterOutputs ==
    /\ cls = "VpcNetwork" /\ pc = "vpc_outputs"
    /\ self' = Put(self, "outputs",
                   [vpc_id |-> self.vpc,
                    internet_gateway_id |-> self.internet_gateway,
                    public_subnet_ids |-> self.public_subnets,
                    private_subnet_ids |-> self.private_subnets,
                    public_route_table_id |-> self.public_route_table,
                    private_route_table_ids |-> self.private_route_tables,
                    nat_gateway_ids |-> self.nat_gateways,
                    nat_eip_addresses |-> self.nat_eips])
    /\ pc' = "done"
    /\ UNCHANGED <<cls, args, locals, resources, raised>>
    /\ UNCHANGED <<script, given>>

VpcNext ==
    \/ VpcGetConfig
    \/ VpcGetZones
    \/ VpcCalcCidrs
    \/ VpcCreateVpc
    \/ VpcCreateIpv6
    \/ VpcCreateInternetGateway
    \/ VpcCreatePrefixList
    \/ VpcCreatePublicSubnets
    \/ VpcCreatePrivateSubnets
    \/ VpcCreatePublicRouteTable
    \/ VpcAssociatePublicSubnets
    \/ VpcCreateNatGateways
    \/ VpcCreatePrivateRouteTables
    \/ VpcRegisterOutputs

(***************************************************************************)
(* SecurityGroup and its presets (infra/security_groups).                  *)
(* A description or any other string the code formats is a sequence of     *)
(* strings: the literal pieces of the f-string and the characters of the   *)
(* values formatted into it; "" is the empty sequence.                     *)
(***************************************************************************)
\* longest rule list a caller passes to the generic SecurityGroup
MaxRules == 2

\* rule records callers pass: all defaults, CIDR source, peer source, both
\* sources, and a UDP rule with an IPv6 source
RuleCatalog ==
    << EmptyDict,
       [protocol |-> "tcp", from_port |-> 443, to_port |-> 443,
        cidr_blocks |-> <<"0.0.0.0/0">>, description |-> <<"https">>],
       [from_port |-> 5432, to_port |-> 5432,
        source_security_group_id |-> <<"sg-peer">>],
       [protocol |-> "tcp", from_port |-> 8080, to_port |-> 8080,
        cidr_blocks |-> <<"10.0.0.0/8">>,
        source_security_group_id |-> <<"sg-peer">>],
       [protocol |-> "udp", from_port |-> 53, to_port |-> 53,
        cidr_blocks |-> <<"10.0.0.0/8">>, ipv6_cidr_blocks |-> <<"::/0">>,
        source_security_group_id |-> NoResource] >>

\* the rule lists of at most n rules callers pass: runs of the catalog
RuleLists(n) ==
    {SubSeq(RuleCatalog, run[1], run[1] + run[2] - 1) :
        run \in {r \in (1..Len(RuleCatalog)) \X (0..n) :
                    r[1] + r[2] - 1 <= Len(RuleCatalog)}}

\* the keys every SecurityGroup class reads, as a preset's caller sets them
PresetCommonArgs ==
    {a @@ b @@ c @@ d :
        a \in Opt("vpc_id", {<<"vpc-1">>}),
        b \in Opt("egress_rules", {<<>>, SubSeq(RuleCatalog, 2, 3)}),
        c \in Opt("ingress_rules", {SubSeq(RuleCatalog, 4, 4)}),
        d \in Opt("description", {<<"caller's description">>})}

\* the args dictionaries of the generic SecurityGroup calls of the model
SecurityGroupArgs ==
    {a @@ b @@ c @@ d @@ e :
        a \in Opt("vpc_id", {NoResource, <<"vpc-1">>}),
        b \in Opt("egress_rules", RuleLists(MaxRules)),
        c \in Opt("ingress_rules", RuleLists(MaxRules)),
        d \in Opt("description", {<<"caller's description">>}),
        e \in Opt("tags", {[env |-> "dev"]})}

\* no error raised; a message is the sequence of the pieces of its text
NoError == <<>>

\* the constructor raises: nothing of it runs after that
Raise(message) ==
    /\ raised' = message
    /\ pc' = "raised"

\* line 25 is reached: by a SecurityGroup call, or by a preset's
\* super().__init__(name, args, opts)
AtSecurityGroupInit ==
    \/ cls = "SecurityGroup" /\ pc = "start"
    \/ pc = "sg_init"

\* line 25: the component registers itself
SgSuperInit ==
    /\ AtSecurityGroupInit
    /\ self' = Put(self, "component", "custom:security:SecurityGroup")
    /\ pc' = "sg_vpc_id"
    /\ UNCHANGED <<cls, args, locals, resources, raised>>
    /\ UNCHANGED <<script, given>>

\* lines 27-29
SgCheckVpcId ==
    /\ pc = "sg_vpc_id"
    /\ IF ~Has(args, "vpc_id") \/ args["vpc_id"] = NoResource
       THEN /\ Raise(<<"vpc_id is required">>)
            /\ UNCHANGED locals
       ELSE /\ locals' = Put(locals, "vpc_id", args["vpc_id"])
            /\ pc' = "sg_config"
            /\ UNCHANGED raised
    /\ UNCHANGED <<cls, args, self, resources>>
    /\ UNCHANGED <<script, given>>

\* lines 38-46: the rule that allows all outbound traffic
DefaultEgressRules ==
    << [protocol |-> "-1", from_port |-> 0, to_port |-> 0,
        cidr_blocks |-> <<"0.0.0.0/0">>,
        description |-> <<"Allow all outbound traffic">>] >>

\* an egress default that is added to the caller's rules too
EgressRules_AlwaysDefault(egress_rules) == egress_rules \o DefaultEgressRules

\* lines 37-46: the caller's egress rules, or the default when there is none
EgressRules(egress_rules) ==
    IF egress_rules = <<>> THEN DefaultEgressRules ELSE egress_rules

\* lines 31-46
SgGetConfig ==
    /\ pc = "sg_config"
    /\ locals' = Put(Put(Put(Put(locals,
            "description", Get(args, "description", <<"Security group for ", "name">>)),
            "ingress_rules", Get(args, "ingress_rules", <<>>)),
            "egress_rules", EgressRules(Get(args, "egress_rules", <<>>))),
            "tags", Get(args, "tags", EmptyDict))
    /\ pc' = "sg_create"
    /\ UNCHANGED <<cls, args, self, resources, raised>>
    /\ UNCHANGED <<script, given>>

\* the rule with the CIDR blocks dropped when a peer security group is named
BuildRule_PeerOnly(rule) ==
    LET peer == Has(rule, "source_security_group_id")
                /\ rule["source_security_group_id"] # NoResource
        rule_args == [protocol |-> Get(rule, "protocol", "tcp"),
                      from_port |-> Get(rule, "from_port", 0),
                      to_port |-> Get(rule, "to_port", 0),
                      cidr_blocks |-> IF peer THEN <<>>
                                      ELSE Get(rule, "cidr_blocks", <<>>),
                      ipv6_cidr_blocks |-> Get(rule, "ipv6_cidr_blocks", <<>>),
                      description |-> Get(rule, "description", <<>>)]
    IN  IF peer
        THEN Put(rule_args, "security_groups", <<rule["source_security_group_id"]>>)
        ELSE rule_args

\* the rule builder with all traffic for the default of protocol
BuildRule_AllProtocols(rule) ==
    LET rule_args == [protocol |-> Get(rule, "protocol", "-1"),
                      from_port |-> Get(rule, "from_port", 0),
                      to_port |-> Get(rule, "to_port", 0),
                      cidr_blocks |-> Get(rule, "cidr_blocks", <<>>),
                      ipv6_cidr_blocks |-> Get(rule, "ipv6_cidr_blocks", <<>>),
                      description |-> Get(rule, "description", <<>>)]
    IN  IF Has(rule, "source_security_group_id")
           /\ rule["source_security_group_id"] # NoResource
        THEN Put(rule_args, "security_groups", <<rule["source_security_group_id"]>>)
        ELSE rule_args

\* lines 65-93: _build_rule
BuildRule(rule) ==
    LET rule_args == [protocol |-> Get(rule, "protocol", "tcp"),
                      from_port |-> Get(rule, "from_port", 0),
                      to_port |-> Get(rule, "to_port", 0),
                      cidr_blocks |-> Get(rule, "cidr_blocks", <<>>),
                      ipv6_cidr_blocks |-> Get(rule, "ipv6_cidr_blocks", <<>>),
                      description |-> Get(rule, "description", <<>>)]
    IN  IF Has(rule, "source_security_group_id")
           /\ rule["source_security_group_id"] # NoResource
        THEN Put(rule_args, "security_groups", <<rule["source_security_group_id"]>>)
        ELSE rule_args

\* [self._build_rule(rule) for rule in rules]
BuildRules(rules) == [k \in 1..Len(rules) |-> BuildRule(rules[k])]

\* lines 49-57
SgCreate ==
    /\ pc = "sg_create"
    /\ resources' = Append(resources,
            Res("SecurityGroup", <<"sg">>, Component,
                [vpc_id |-> locals.vpc_id,
                 description |-> locals.description,
                 ingress |-> BuildRules(locals.ingress_rules),
                 egress |-> BuildRules(locals.egress_rules),
                 tags |-> Put(locals.tags, "Name", "name")]))
    /\ self' = Put(self, "security_group", <<"sg">>)
    /\ pc' = "sg_outputs"
    /\ UNCHANGED <<cls, args, locals, raised>>
    /\ UNCHANGED <<script, given>>

\* lines 60-63
SgRegisterOutputs ==
    /\ pc = "sg_outputs"
    /\ self' = Put(self, "outputs", [security_group_id |-> self.security_group,
                                     security_group_name |-> self.security_group])
    /\ pc' = "done"
    /\ UNCHANGED <<cls, args, locals, resources, raised>>
    /\ UNCHANGED <<script, given>>

\* a TCP rule open to every address
TcpRule_Open(port, cidr_blocks, description) ==
    [protocol |-> "tcp", from_port |-> port, to_port |-> port,
     cidr_blocks |-> <<"0.0.0.0/0">>, description |-> description]

\* a TCP rule for one port, open to CIDR blocks
TcpRule(port, cidr_blocks, description) ==
    [protocol |-> "tcp", from_port |-> port, to_port |-> port,
     cidr_blocks |-> cidr_blocks, description |-> description]

\* the args dictionaries of the WebSecurityGroup calls of the model
WebArgs ==
    {a @@ b @@ c @@ d @@ e :
        a \in PresetCommonArgs,
        b \in Opt("allow_ssh", BOOLEAN),
        c \in Opt("ssh_cidr_blocks", {<<"10.0.0.0/8">>}),
        d \in Opt("http_cidr_blocks", {<<"10.0.0.0/8">>}),
        e \in Opt("https_cidr_blocks", {<<"10.0.0.0/8">>})}

\* lines 115-149: WebSecurityGroup.__init__
WebSecurityGroupInit ==
    /\ cls = "WebSecurityGroup" /\ pc = "start"
    /\ LET allow_ssh == Get(args, "allow_ssh", TRUE)
           ssh_cidr_blocks == Get(args, "ssh_cidr_blocks", <<"0.0.0.0/0">>)
           http_cidr_blocks == Get(args, "http_cidr_blocks", <<"0.0.0.0/0">>)
           https_cidr_blocks == Get(args, "https_cidr_blocks", <<"0.0.0.0/0">>)
           ingress_rules ==
               << TcpRule(80, http_cidr_blocks, <<"Allow HTTP">>),
                  TcpRule(443, https_cidr_blocks, <<"Allow HTTPS">>) >>
               \o (IF allow_ssh
                   THEN <<TcpRule(22, ssh_cidr_blocks, <<"Allow SSH">>)>>
                   ELSE <<>>)
       IN  args' = Put(Put(args,
               "description",
               Get(args, "description", <<"Security group for web servers">>)),
               "ingress_rules", ingress_rules)
    /\ pc' = "sg_init"
    /\ UNCHANGED <<cls, locals, self, resources, raised>>
    /\ UNCHANGED <<script, given>>

\* str.lower() of one character
LowerChar(c) ==
    CASE c = "A" -> "a" []
      c = "B" -> "b" []
      c = "C" -> "c" []
      c = "D" -> "d" []
      c = "E" -> "e" []
      c = "F" -> "f" []
      c = "G" -> "g" []
      c = "H" -> "h" []
      c = "I" -> "i" []
      c = "J" -> "j" []
      c = "K" -> "k" []
      c = "L" -> "l" []
      c = "M" -> "m" []
      c = "N" -> "n" []
      c = "O" -> "o" []
      c = "P" -> "p" []
      c = "Q" -> "q" []
      c = "R" -> "r" []
      c = "S" -> "s" []
      c = "T" -> "t" []
      c = "U" -> "u" []
      c = "V" -> "v" []
      c = "W" -> "w" []
      c = "X" -> "x" []
      c = "Y" -> "y" []
      c = "Z" -> "z" []
      OTHER -> c

\* str.lower()
Lower(s) == [k \in 1..Len(s) |-> LowerChar(s[k])]

\* lines 175-185: database_ports, as (name, port) pairs
database_ports ==
    { <<<<"m", "y", "s", "q", "l">>, 3306>>,
      <<<<"p", "o", "s", "t", "g", "r", "e", "s">>, 5432>>,
      <<<<"p", "o", "s", "t", "g", "r", "e", "s", "q", "l">>, 5432>>,
      <<<<"r", "e", "d", "i", "s">>, 6379>>,
      <<<<"m", "o", "n", "g", "o", "d", "b">>, 27017>>,
      <<<<"m", "s", "s", "q", "l">>, 1433>>,
      <<<<"o", "r", "a", "c", "l", "e">>, 1521>>,
      <<<<"a", "u", "r", "o", "r", "a", "-", "m", "y", "s", "q", "l">>, 3306>>,
      <<<<"a", "u", "r", "o", "r", "a", "-", "p", "o", "s", "t", "g", "r", "e", "s">>, 5432>> }

\* "mysql", the default of database_type
DefaultDatabaseType == <<"m", "y", "s", "q", "l">>

\* a lookup whose fallback is the PostgreSQL port
DatabasePort_Fallback5432(database_type) ==
    IF \E e \in database_ports : e[1] = Lower(database_type)
    THEN (CHOOSE e \in database_ports : e[1] = Lower(database_type))[2]
    ELSE 5432

\* line 187: database_ports.get(database_type.lower(), 3306)
DatabasePort(database_type) ==
    IF \E e \in database_ports : e[1] = Lower(database_type)
    THEN (CHOOSE e \in database_ports : e[1] = Lower(database_type))[2]
    ELSE 3306

\* the database_type strings callers pass
CallerDatabaseTypes ==
    {<<"m", "y", "s", "q", "l">>,
     <<"p", "o", "s", "t", "g", "r", "e", "s">>,
     <<"p", "o", "s", "t", "g", "r", "e", "s", "q", "l">>,
     <<"r", "e", "d", "i", "s">>,
     <<"m", "o", "n", "g", "o", "d", "b">>,
     <<"m", "s", "s", "q", "l">>,
     <<"o", "r", "a", "c", "l", "e">>,
     <<"a", "u", "r", "o", "r", "a", "-", "m", "y", "s", "q", "l">>,
     <<"a", "u", "r", "o", "r", "a", "-", "p", "o", "s", "t", "g", "r", "e", "s">>,
     <<"P", "o", "s", "t", "g", "r", "e", "s">>,
     <<"R", "E", "D", "I", "S">>,
     <<"m", "a", "r", "i", "a", "d", "b">>,
     <<"d", "y", "n", "a", "m", "o", "d", "b">>,
     <<>>}

\* the args dictionaries of the DatabaseSecurityGroup calls of the model
DatabaseArgs ==
    {a @@ b @@ c @@ d :
        a \in PresetCommonArgs,
        b \in Opt("database_type", CallerDatabaseTypes),
        c \in Opt("source_security_group_id", {<<"sg-app">>}),
        d \in Opt("source_cidr_blocks", {<<>>, <<"10.0.0.0/8">>})}

\* lines 196-203 and 297-304: the rule with its source, the peer security
\* group first, or the error when the caller names no source
WithSource(rule) ==
    IF Has(args, "source_security_group_id") /\ args["source_security_group_id"] # NoResource
    THEN <<Put(rule, "source_security_group_id", args["source_security_group_id"])>>
    ELSE IF Get(args, "source_cidr_blocks", <<>>) # <<>>
    THEN <<Put(rule, "cidr_blocks", args["source_cidr_blocks"])>>
    ELSE <<>>

\* lines 170-208: DatabaseSecurityGroup.__init__
DatabaseSecurityGroupInit ==
    /\ cls = "DatabaseSecurityGroup" /\ pc = "start"
    /\ LET database_type == Get(args, "database_type", DefaultDatabaseType)
           port == DatabasePort(database_type)
           ingress_rule == [protocol |-> "tcp", from_port |-> port, to_port |-> port,
                            description |-> <<"Allow ">> \o database_type \o <<" access">>]
       IN  IF WithSource(ingress_rule) = <<>>
           THEN /\ Raise(<<"Either source_security_group_id or source_cidr_blocks must be provided">>)
                /\ UNCHANGED args
           ELSE /\ args' = Put(Put(args,
                        "description",
                        Get(args, "description",
                            <<"Security group for ">> \o database_type \o <<" database">>)),
                        "ingress_rules", WithSource(ingress_rule))
                /\ pc' = "sg_init"
                /\ UNCHANGED raised
    /\ UNCHANGED <<cls, locals, self, resources>>
    /\ UNCHANGED <<script, given>>

\* the args dictionaries of the LoadBalancerSecurityGroup calls of the model
LoadBalancerArgs ==
    {a @@ b @@ c :
        a \in PresetCommonArgs,
        b \in Opt("internal", BOOLEAN),
        c \in Opt("cidr_blocks", {<<>>, <<"10.0.0.0/8">>})}

\* lines 228-255: LoadBalancerSecurityGroup.__init__
LoadBalancerSecurityGroupInit ==
    /\ cls = "LoadBalancerSecurityGroup" /\ pc = "start"
    /\ LET internal == Get(args, "internal", FALSE)
           cidr_blocks == Get(args, "cidr_blocks",
                              IF ~internal THEN <<"0.0.0.0/0">> ELSE <<>>)
           lb_type == IF internal THEN "internal" ELSE "external"
       IN  IF internal /\ cidr_blocks = <<>>
           THEN /\ Raise(<<"cidr_blocks must be provided for internal load balancers">>)
                /\ UNCHANGED args
           ELSE /\ args' = Put(Put(args,
                        "description",
                        Get(args, "description",
                            <<"Security group for ", lb_type, " load balancer">>)),
                        "ingress_rules",
                        << TcpRule(80, cidr_blocks, <<"Allow HTTP">>),
                           TcpRule(443, cidr_blocks, <<"Allow HTTPS">>) >>)
                /\ pc' = "sg_init"
                /\ UNCHANGED raised
    /\ UNCHANGED <<cls, locals, self, resources>>
    /\ UNCHANGED <<script, given>>

\* the args dictionaries of the ApplicationSecurityGroup calls of the model
ApplicationArgs ==
    {a @@ b @@ c @@ d @@ e @@ f :
        a \in PresetCommonArgs,
        b \in Opt("app_port", {0, 8080}),
        c \in Opt("source_security_group_id", {<<"sg-web">>}),
        d \in Opt("source_cidr_blocks", {<<>>, <<"10.0.0.0/8">>}),
        e \in Opt("allow_ssh", BOOLEAN),
        f \in Opt("ssh_cidr_blocks", {<<"192.168.0.0/16">>})}

\* lines 278-321: ApplicationSecurityGroup.__init__
ApplicationSecurityGroupInit ==
    /\ cls = "ApplicationSecurityGroup" /\ pc = "start"
    /\ IF ~Has(args, "app_port") \/ args["app_port"] = 0
       THEN /\ Raise(<<"app_port is required">>)
            /\ UNCHANGED args
       ELSE LET app_port == args["app_port"]
                allow_ssh == Get(args, "allow_ssh", TRUE)
                ssh_cidr_blocks == Get(args, "ssh_cidr_blocks", <<"10.0.0.0/8">>)
                app_rule == [protocol |-> "tcp", from_port |-> app_port,
                             to_port |-> app_port,
                             description |->
                                 <<"Allow application traffic on port ">> \o Str(app_port)]
            IN  IF WithSource(app_rule) = <<>>
                THEN /\ Raise(<<"Either source_security_group_id or source_cidr_blocks must be provided">>)
                     /\ UNCHANGED args
                ELSE /\ args' = Put(Put(args,
                             "description",
                             Get(args, "description",
                                 <<"Security group for application servers">>)),
                             "ingress_rules",
                             WithSource(app_rule)
                             \o (IF allow_ssh
                                 THEN <<TcpRule(22, ssh_cidr_blocks,
                                                <<"Allow SSH from private network">>)>>
                                 ELSE <<>>))
                     /\ pc' = "sg_init"
                     /\ UNCHANGED raised
    /\ UNCHANGED <<cls, locals, self, resources>>
    /\ UNCHANGED <<script, given>>

SecurityGroupNext ==
    \/ WebSecurityGroupInit
    \/ DatabaseSecurityGroupInit
    \/ LoadBalancerSecurityGroupInit
    \/ ApplicationSecurityGroupInit
    \/ SgSuperInit
    \/ SgCheckVpcId
    \/ SgGetConfig
    \/ SgCreate
    \/ SgRegisterOutputs

(***************************************************************************)
(* ApplicationLoadBalancer.__init__ (deploy-asg/infra/load_balancer).      *)
(***************************************************************************)
\* longest listeners list a caller passes
MaxListeners == 2

ForwardTo(tg) == [type |-> "forward", target_group_arn |-> tg]

\* listener configurations callers pass
ListenerCatalog ==
    { [port |-> 80, protocol |-> "HTTP", default_action |-> ForwardTo(<<"tg-1">>)],
      [port |-> 443, protocol |-> "HTTPS", certificate_arn |-> "cert-1",
       default_action |-> ForwardTo(<<"tg-1">>)],
      [port |-> 443, protocol |-> "HTTPS", default_action |-> ForwardTo(<<"tg-1">>)],
      [port |-> 443, protocol |-> "HTTPS", certificate_arn |-> "",
       ssl_policy |-> "ELBSecurityPolicy-TLS13-1-2-2021-06",
       default_action |-> [type |-> "forward"]],
      [port |-> 80, default_action |-> [type |-> "forward"]],
      [port |-> 8080, protocol |-> "HTTP", certificate_arn |-> "cert-1",
       ssl_policy |-> "ELBSecurityPolicy-TLS13-1-2-2021-06",
       default_action |-> [target_group_arn |-> <<"tg-2">>]],
      [port |-> 80, protocol |-> "HTTP", default_action |-> [type |-> "redirect"]],
      [port |-> 80, default_action |->
          [type |-> "redirect",
           redirect |-> [port |-> "8443", status_code |-> "HTTP_302"]]],
      [port |-> 8080, protocol |-> "HTTP",
       default_action |-> [type |-> "fixed-response"]],
      [port |-> 443, protocol |-> "HTTPS", certificate_arn |-> "cert-1",
       ssl_policy |-> "ELBSecurityPolicy-TLS13-1-2-2021-06",
       default_action |->
          [type |-> "fixed-response",
           fixed_response |-> [message_body |-> "maintenance", status_code |-> "503"]]],
      [port |-> 80, protocol |-> "HTTP",
       default_action |-> [type |-> "authenticate-oidc"]],
      [protocol |-> "HTTP", default_action |-> ForwardTo(<<"tg-1">>)],
      [port |-> 80, protocol |-> "HTTP"],
      [port |-> 8080, default_action |-> EmptyDict] }

RECURSIVE ListsOver(_, _)
\* the lists of at most n elements of S
ListsOver(S, n) ==
    IF n = 0 THEN {<<>>}
    ELSE ListsOver(S, n - 1)
         \cup {Append(l, x) : l \in ListsOver(S, n - 1), x \in S}

\* the args dictionaries of the ApplicationLoadBalancer calls of the model
AlbArgs ==
    {a @@ b @@ c :
        a \in Opt("subnet_ids", {<< <<"subnet-a">> >>, << <<"subnet-a">>, <<"subnet-b">> >>}),
        b \in Opt("security_group_ids", {<< <<"sg-1">> >>}),
        c \in Opt("listeners", ListsOver(ListenerCatalog, MaxListeners))}

\* lines 41-55: the component registers itself and reads its configuration
AlbGetConfig ==
    /\ cls = "ApplicationLoadBalancer" /\ pc = "start"
    /\ self' = Put(self, "component", "custom:loadbalancer:ApplicationLoadBalancer")
    /\ locals' = [subnet_ids |-> Get(args, "subnet_ids", <<>>),
                  security_group_ids |-> Get(args, "security_group_ids", <<>>),
                  internal |-> Get(args, "internal", FALSE),
                  listeners |-> Get(args, "listeners", <<>>)]
    /\ pc' = "alb_validate"
    /\ UNCHANGED <<cls, args, resources, raised>>
    /\ UNCHANGED <<script, given>>

\* one subnet is enough
RequiredError_OneSubnet(subnet_ids, security_group_ids, listeners) ==
    IF Len(subnet_ids) < 1
    THEN <<"At least 2 subnet_ids must be provided in different AZs">>
    ELSE IF security_group_ids = <<>>
    THEN <<"security_group_ids must be provided">>
    ELSE IF listeners = <<>>
    THEN <<"At least one listener configuration must be provided">>
    ELSE NoError

\* lines 58-65: the error of the required parameters, if any
RequiredError(subnet_ids, security_group_ids, listeners) ==
    IF Len(subnet_ids) < 2
    THEN <<"At least 2 subnet_ids must be provided in different AZs">>
    ELSE IF security_group_ids = <<>>
    THEN <<"security_group_ids must be provided">>
    ELSE IF listeners = <<>>
    THEN <<"At least one listener configuration must be provided">>
    ELSE NoError

\* lines 57-65
AlbValidate ==
    /\ cls = "ApplicationLoadBalancer" /\ pc = "alb_validate"
    /\ LET error == RequiredError(locals.subnet_ids, locals.security_group_ids,
                                  locals.listeners)
       IN  IF error # NoError
           THEN Raise(error)
           ELSE pc' = "alb_create" /\ UNCHANGED raised
    /\ UNCHANGED <<cls, args, locals, self, resources>>
    /\ UNCHANGED <<script, given>>

\* lines 68-81
AlbCreateLoadBalancer ==
    /\ cls = "ApplicationLoadBalancer" /\ pc = "alb_create"
    /\ resources' = Append(resources,
            Res("LoadBalancer", <<"alb">>, Component,
                [internal |-> locals.internal,
                 load_balancer_type |-> "application",
                 security_groups |-> locals.security_group_ids,
                 subnets |-> locals.subnet_ids]))
    /\ self' = Put(Put(self, "alb", <<"alb">>), "listeners", <<>>)
    /\ locals' = Put(locals, "idx", 0)
    /\ pc' = "alb_listeners"
    /\ UNCHANGED <<cls, args, raised>>
    /\ UNCHANGED <<script, given>>

\* f"Listener {idx}: {text}"
ListenerMessage(idx, text) == <<"Listener ">> \o Str(idx) \o <<": ", text>>

\* lines 99, 138-142: the error of the listener's certificate, if any
CertificateError(idx, listener_config) ==
    IF Get(listener_config, "protocol", "HTTP") = "HTTPS"
       /\ Get(listener_config, "certificate_arn", "") = ""
    THEN ListenerMessage(idx, "certificate_arn required for HTTPS protocol")
    ELSE NoError

\* the redirect and fixed-response arms checked the way the forward arm is
ListenerError_ArmsRequired(idx, listener_config) ==
    LET default_action == Get(listener_config, "default_action", EmptyDict)
        action_type == Get(default_action, "type", "forward")
    IN  IF Get(listener_config, "port", 0) = 0
        THEN ListenerMessage(idx, "port must be provided")
        ELSE IF default_action = EmptyDict
        THEN ListenerMessage(idx, "default_action must be provided")
        ELSE IF action_type = "forward"
                /\ Get(default_action, "target_group_arn", NoResource) = NoResource
        THEN ListenerMessage(idx, "target_group_arn required for forward action")
        ELSE IF action_type = "redirect"
                /\ Get(default_action, "redirect", EmptyDict) = EmptyDict
        THEN ListenerMessage(idx, "redirect required for redirect action")
        ELSE IF action_type = "fixed-response"
                /\ Get(default_action, "fixed_response", EmptyDict) = EmptyDict
        THEN ListenerMessage(idx, "fixed_response required for fixed-response action")
        ELSE CertificateError(idx, listener_config)

\* lines 92-107, 138-142: the error one listener configuration raises, if
\* any, in the order the loop body checks
ListenerError(idx, listener_config) ==
    LET default_action == Get(listener_config, "default_action", EmptyDict)
    IN  IF Get(listener_config, "port", 0) = 0
        THEN ListenerMessage(idx, "port must be provided")
        ELSE IF default_action = EmptyDict
        THEN ListenerMessage(idx, "default_action must be provided")
        ELSE IF Get(default_action, "type", "forward") = "forward"
                /\ Get(default_action, "target_group_arn", NoResource) = NoResource
        THEN ListenerMessage(idx, "target_group_arn required for forward action")
        ELSE CertificateError(idx, listener_config)

\* lines 99-127: action_args
ActionArgs(default_action) ==
    LET action_type == Get(default_action, "type", "forward")
        redirect_config == Get(default_action, "redirect", EmptyDict)
        fixed_response == Get(default_action, "fixed_response", EmptyDict)
    IN  IF action_type = "forward"
        THEN [type |-> action_type,
              target_group_arn |-> default_action["target_group_arn"]]
        ELSE IF action_type = "redirect"
        THEN [type |-> action_type,
              redirect |->
                 [protocol |-> Get(redirect_config, "protocol", "HTTPS"),
                  port |-> Get(redirect_config, "port", "443"),
                  status_code |-> Get(redirect_config, "status_code", "HTTP_301"),
                  host |-> Get(redirect_config, "host", "#{host}"),
                  path |-> Get(redirect_config, "path", "/#{path}"),
                  query |-> Get(redirect_config, "query", "#{query}")]]
        ELSE IF action_type = "fixed-response"
        THEN [type |-> action_type,
              fixed_response |->
                 [content_type |-> Get(fixed_response, "content_type", "text/plain"),
                  message_body |-> Get(fixed_response, "message_body", "OK"),
                  status_code |-> Get(fixed_response, "status_code", "200")]]
        ELSE [type |-> action_type]

\* lines 138-144: the SSL arguments, of an HTTPS listener only
SslArgs(listener_config) ==
    IF Get(listener_config, "protocol", "HTTP") = "HTTPS"
    THEN [certificate_arn |-> listener_config["certificate_arn"],
          ssl_policy |-> Get(listener_config, "ssl_policy", "ELBSecurityPolicy-2016-08")]
    ELSE EmptyDict

\* lines 130-151: the listener resource of one configuration
ListenerResource(alb, listener_config) ==
    Res("Listener", <<"listener", listener_config["port"]>>, Component,
        SslArgs(listener_config)
        @@ [load_balancer_arn |-> alb,
            port |-> listener_config["port"],
            protocol |-> Get(listener_config, "protocol", "HTTP"),
            default_actions |-> <<ActionArgs(listener_config["default_action"])>>])

\* lines 85-152: one iteration of the listener loop: the configuration is
\* validated and the listener created, or the constructor raises
AlbListener ==
    /\ cls = "ApplicationLoadBalancer" /\ pc = "alb_listeners"
    /\ locals.idx < Len(locals.listeners)
    /\ LET listener_config == locals.listeners[locals.idx + 1]
           error == ListenerError(locals.idx, listener_config)
       IN  IF error # NoError
           THEN /\ Raise(error)
                /\ UNCHANGED <<locals, self, resources>>
           ELSE /\ resources' = Append(resources,
                        ListenerResource(self.alb, listener_config))
                /\ self' = Put(self, "listeners",
                        Append(self.listeners, <<"listener", listener_config["port"]>>))
                /\ locals' = Put(locals, "idx", locals.idx + 1)
                /\ UNCHANGED <<pc, raised>>
    /\ UNCHANGED <<cls, args>>
    /\ UNCHANGED <<script, given>>

\* lines 155-166
AlbRegisterOutputs ==
    /\ cls = "ApplicationLoadBalancer" /\ pc = "alb_listeners"
    /\ locals.idx = Len(locals.listeners)
    /\ self' = Put(self, "outputs",
                   [alb_id |-> self.alb, alb_arn |-> self.alb,
                    listener_arns |-> self.listeners])
    /\ pc' = "done"
    /\ UNCHANGED <<cls, args, locals, resources, raised>>
    /\ UNCHANGED <<script, given>>

AlbNext ==
    \/ AlbGetConfig
    \/ AlbValidate
    \/ AlbCreateLoadBalancer
    \/ AlbListener
    \/ AlbRegisterOutputs

(***************************************************************************)
(* Ec2Instance.__init__ (deploy-asg/infra/ec2/ec2.py)                      *)
(***************************************************************************)
\* the id aws.ec2.get_ami answers with
LatestAmi == "ami-al2023-latest"

\* the args dictionaries of the Ec2Instance calls of the model
Ec2Args ==
    {a @@ b @@ c @@ d @@ e @@ f :
        a \in Opt("instance_type", {None, "t3.micro"}),
        b \in Opt("ami", {"", "ami-1"}),
        c \in Opt("key_name", {None, "key-1"}),
        d \in Opt("security_group_ids",
                  {<<>>, << <<"web", "sg">> >>,
                   << <<"web", "sg">>, <<"internal", "sg">> >>}),
        e \in Opt("vpc_id", {NoResource, <<"vpc-1">>}),
        f \in Opt("tags", {EmptyDict, [Environment |-> "dev"]})}

\* lines 27-37: the component registers itself and reads its configuration
Ec2GetConfig ==
    /\ cls = "Ec2Instance" /\ pc = "start"
    /\ self' = Put(self, "component", "custom:ec2:Ec2Instance")
    /\ locals' = [instance_type |-> Get(args, "instance_type", "t2.micro"),
                  ami |-> Get(args, "ami", None),
                  key_name |-> Get(args, "key_name", None),
                  subnet_id |-> Get(args, "subnet_id", NoResource),
                  security_group_ids |-> Get(args, "security_group_ids", <<>>),
                  vpc_id |-> Get(args, "vpc_id", NoResource),
                  user_data |-> Get(args, "user_data", None),
                  tags |-> Get(args, "tags", EmptyDict)]
    /\ pc' = "ec2_validate"
    /\ UNCHANGED <<cls, args, resources, raised>>
    /\ UNCHANGED <<script, given>>

\* a validation that lets every call through
Ec2Validate_NeverRaises ==
    /\ cls = "Ec2Instance" /\ pc = "ec2_validate"
    /\ pc' = "ec2_ami"
    /\ UNCHANGED <<cls, args, locals, self, resources, raised>>
    /\ UNCHANGED <<script, given>>

\* lines 40-41
Ec2Validate ==
    /\ cls = "Ec2Instance" /\ pc = "ec2_validate"
    /\ IF locals.security_group_ids = <<>> /\ locals.vpc_id = NoResource
       THEN Raise(<<"Either security_group_ids or vpc_id must be provided">>)
       ELSE pc' = "ec2_ami" /\ UNCHANGED raised
    /\ UNCHANGED <<cls, args, locals, self, resources>>
    /\ UNCHANGED <<script, given>>

\* lines 44-59: an unspecified AMI resolves to the latest Amazon Linux image
Ec2GetAmi ==
    /\ cls = "Ec2Instance" /\ pc = "ec2_ami"
    /\ locals' = IF Truthy(locals.ami) THEN locals
                 ELSE Put(locals, "ami", LatestAmi)
    /\ pc' = "ec2_sg"
    /\ UNCHANGED <<cls, args, self, resources, raised>>
    /\ UNCHANGED <<script, given>>

\* a fallback group created whenever the caller names a VPC
NeedsFallback_VpcOnly(security_group_ids, vpc_id) == vpc_id # NoResource

\* line 63: not security_group_ids and vpc_id
NeedsFallback(security_group_ids, vpc_id) ==
    security_group_ids = <<>> /\ vpc_id # NoResource

\* lines 62-89: the fallback security group, with no security_group_ids
Ec2CreateSecurityGroup ==
    /\ cls = "Ec2Instance" /\ pc = "ec2_sg"
    /\ IF NeedsFallback(locals.security_group_ids, locals.vpc_id)
       THEN /\ resources' = Append(resources,
                    Res("SecurityGroup", <<"sg">>, Component,
                        [vpc_id |-> locals.vpc_id,
                         description |-> <<"Security group for ", "name">>,
                         ingress |->
                            << [protocol |-> "tcp", from_port |-> 22, to_port |-> 22,
                                cidr_blocks |-> <<"0.0.0.0/0">>,
                                description |-> <<"Allow SSH">>] >>,
                         egress |-> << [protocol |-> "-1", from_port |-> 0,
                                        to_port |-> 0,
                                        cidr_blocks |-> <<"0.0.0.0/0">>,
                                        description |-> <<"Allow all outbound">>] >>,
                         tags |-> Put(locals.tags, "Name", "name-sg")]))
            /\ self' = Put(self, "security_group", <<"sg">>)
            /\ locals' = Put(locals, "security_group_ids", << <<"sg">> >>)
       ELSE /\ self' = Put(self, "security_group", NoResource)
            /\ UNCHANGED <<locals, resources>>
    /\ pc' = "ec2_instance"
    /\ UNCHANGED <<cls, args, raised>>
    /\ UNCHANGED <<script, given>>

\* lines 92-102
Ec2CreateInstance ==
    /\ cls = "Ec2Instance" /\ pc = "ec2_instance"
    /\ resources' = Append(resources,
            Res("Instance", <<"instance">>, Component,
                [instance_type |-> locals.instance_type,
                 ami |-> locals.ami,
                 key_name |-> locals.key_name,
                 subnet_id |-> locals.subnet_id,
                 vpc_security_group_ids |-> locals.security_group_ids,
                 user_data |-> locals.user_data,
                 tags |-> Put(locals.tags, "Name", "name")]))
    /\ self' = Put(self, "instance", <<"instance">>)
    /\ pc' = "ec2_outputs"
    /\ UNCHANGED <<cls, args, locals, raised>>
    /\ UNCHANGED <<script, given>>

\* lines 105-116
Ec2RegisterOutputs ==
    /\ cls = "Ec2Instance" /\ pc = "ec2_outputs"
    /\ self' = Put(self, "outputs",
                   (IF self.security_group # NoResource
                    THEN [security_group_id |-> self.security_group]
                    ELSE EmptyDict)
                   @@ [instance_id |-> self.instance])
    /\ pc' = "done"
    /\ UNCHANGED <<cls, args, locals, resources, raised>>
    /\ UNCHANGED <<script, given>>

Ec2Next ==
    \/ Ec2GetConfig
    \/ Ec2Validate
    \/ Ec2GetAmi
    \/ Ec2CreateSecurityGroup
    \/ Ec2CreateInstance
    \/ Ec2RegisterOutputs

(***************************************************************************)
(* AutoScalingGroup.__init__ (deploy-asg/infra/asg/asg.py)                 *)
(***************************************************************************)
\* the args dictionaries of the AutoScalingGroup calls of the model
AsgArgs ==
    {a @@ b @@ c @@ d @@ e @@ f @@ g :
        a \in Opt("launch_template_id", {NoResource, <<"web-lt", "lt">>}),
        b \in Opt("min_size", {0, 2, 5}),
        c \in Opt("max_size", {1, 4}),
        d \in Opt("desired_capacity", {0, 3}),
        e \in Opt("vpc_zone_identifiers", {<<>>, << <<"private-subnet", 0>> >>}),
        f \in Opt("target_group_arns", {<<>>, << <<"web-tg", "tg">> >>}),
        g \in Opt("tags", {EmptyDict, [Environment |-> "dev"],
                           [Environment |-> "dev", Name |-> "web-asg"]})}

\* the desired capacity forced between min_size and max_size
DesiredCapacity_Clamped(a, min_size) ==
    LET max_size == Get(a, "max_size", 3)
        desired == Get(a, "desired_capacity", min_size)
    IN  IF desired < min_size THEN min_size
        ELSE IF desired > max_size THEN max_size
        ELSE desired

\* the desired capacity with a default of its own
DesiredCapacity_DefaultOne(a, min_size) == Get(a, "desired_capacity", 1)

\* line 43: args.get("desired_capacity", min_size)
DesiredCapacity(a, min_size) == Get(a, "desired_capacity", min_size)

\* lines 36-53: the component registers itself and reads its configuration
AsgGetConfig ==
    /\ cls = "AutoScalingGroup" /\ pc = "start"
    /\ self' = Put(self, "component", "custom:asg:AutoScalingGroup")
    /\ LET min_size == Get(args, "min_size", 1)
       IN  locals' =
             [launch_template_id |-> Get(args, "launch_template_id", NoResource),
              launch_template_version |-> Get(args, "launch_template_version", "$Latest"),
              min_size |-> min_size,
              max_size |-> Get(args, "max_size", 3),
              desired_capacity |-> DesiredCapacity(args, min_size),
              vpc_zone_identifiers |-> Get(args, "vpc_zone_identifiers", <<>>),
              health_check_type |-> Get(args, "health_check_type", "EC2"),
              health_check_grace_period |-> Get(args, "health_check_grace_period", 300),
              target_group_arns |-> Get(args, "target_group_arns", <<>>),
              default_cooldown |-> Get(args, "default_cooldown", 300),
              protect_from_scale_in |-> Get(args, "protect_from_scale_in", FALSE),
              wait_for_capacity_timeout |-> Get(args, "wait_for_capacity_timeout", "10m"),
              tags |-> Get(args, "tags", EmptyDict)]
    /\ pc' = "asg_validate"
    /\ UNCHANGED <<cls, args, resources, raised>>
    /\ UNCHANGED <<script, given>>

\* lines 56-60
AsgValidate ==
    /\ cls = "AutoScalingGroup" /\ pc = "asg_validate"
    /\ IF locals.launch_template_id = NoResource
       THEN Raise(<<"launch_template_id must be provided">>)
       ELSE IF locals.vpc_zone_identifiers = <<>>
       THEN Raise(<<"vpc_zone_identifiers must be provided">>)
       ELSE pc' = "asg_create" /\ UNCHANGED raised
    /\ UNCHANGED <<cls, args, locals, self, resources>>
    /\ UNCHANGED <<script, given>>

\* lines 91-99: one GroupTagArgs per entry of tags; the group's tags are
\* kept as a set, the order of a dict's entries not being modelled
AsgTags(tags) ==
    {[key |-> key, value |-> tags[key], propagate_at_launch |-> TRUE] :
        key \in DOMAIN tags}

\* lines 63-106: the arguments of the group, and the group
AsgCreate ==
    /\ cls = "AutoScalingGroup" /\ pc = "asg_create"
    /\ resources' = Append(resources,
            Res("AutoScalingGroup", <<"asg">>, Component,
                (IF locals.target_group_arns # <<>>
                 THEN [target_group_arns |-> locals.target_group_arns]
                 ELSE EmptyDict)
                @@ (IF locals.tags # EmptyDict
                    THEN [tags |-> AsgTags(locals.tags)]
                    ELSE EmptyDict)
                @@ [min_size |-> locals.min_size,
                    max_size |-> locals.max_size,
                    desired_capacity |-> locals.desired_capacity,
                    vpc_zone_identifiers |-> locals.vpc_zone_identifiers,
                    health_check_type |-> locals.health_check_type,
                    health_check_grace_period |-> locals.health_check_grace_period,
                    default_cooldown |-> locals.default_cooldown,
                    protect_from_scale_in |-> locals.protect_from_scale_in,
                    wait_for_capacity_timeout |-> locals.wait_for_capacity_timeout,
                    launch_template |->
                        [id |-> locals.launch_template_id,
                         version |-> locals.launch_template_version]]))
    /\ self' = Put(self, "asg", <<"asg">>)
    /\ pc' = "asg_outputs"
    /\ UNCHANGED <<cls, args, locals, raised>>
    /\ UNCHANGED <<script, given>>

\* lines 109-118
AsgRegisterOutputs ==
    /\ cls = "AutoScalingGroup" /\ pc = "asg_outputs"
    /\ self' = Put(self, "outputs", [asg_id |-> self.asg, asg_arn |-> self.asg,
                                     asg_name |-> self.asg])
    /\ pc' = "done"
    /\ UNCHANGED <<cls, args, locals, resources, raised>>
    /\ UNCHANGED <<script, given>>

AsgNext ==
    \/ AsgGetConfig
    \/ AsgValidate
    \/ AsgCreate
    \/ AsgRegisterOutputs

(***************************************************************************)
(* S3Bucket.__init__ (deploy-asg/infra/s3/s3.py).  The keyword arguments   *)
(* of the call are the keys of args; args.tags is the caller's mapping.    *)
(***************************************************************************)
\* the keyword arguments of the S3Bucket calls of the model
S3Args ==
    {a @@ b @@ c :
        a \in Opt("bucket_name", {"web-content-bucket"}),
        b \in Opt("versioning_enabled", BOOLEAN),
        c \in Opt("tags", {EmptyDict, [Environment |-> "dev"],
                           [Environment |-> "dev", ManagedBy |-> "hand"]})}

\* lines 18-21: self.tags is the caller's mapping itself unless that is None
\* or empty, and the assignment to its ManagedBy key writes to that mapping
S3SetTags ==
    /\ cls = "S3Bucket" /\ pc = "start"
    /\ LET tags == Get(args, "tags", EmptyDict)
           managed == Put(tags, "ManagedBy", "Pulumi")
       IN  /\ self' = Put(Put(self, "component", "custom:storage:S3Bucket"),
                          "tags", managed)
           /\ args' = IF tags # EmptyDict THEN Put(args, "tags", managed) ELSE args
    /\ pc' = "s3_bucket"
    /\ UNCHANGED <<cls, locals, resources, raised>>
    /\ UNCHANGED <<script, given>>

\* lines 23-28
S3CreateBucket ==
    /\ cls = "S3Bucket" /\ pc = "s3_bucket"
    /\ resources' = Append(resources,
            Res("Bucket", <<"bucket">>, Component,
                [bucket |-> Get(args, "bucket_name", None),
                 tags |-> self.tags]))
    /\ self' = Put(self, "bucket", <<"bucket">>)
    /\ pc' = "s3_versioning"
    /\ UNCHANGED <<cls, args, locals, raised>>
    /\ UNCHANGED <<script, given>>

\* lines 30-38
S3CreateVersioning ==
    /\ cls = "S3Bucket" /\ pc = "s3_versioning"
    /\ IF Get(args, "versioning_enabled", FALSE)
       THEN /\ resources' = Append(resources,
                    Res("BucketVersioningV2", <<"versioning">>, Component,
                        [bucket |-> self.bucket,
                         versioning_configuration |-> [status |-> "Enabled"]]))
            /\ self' = Put(self, "versioning", <<"versioning">>)
       ELSE UNCHANGED <<self, resources>>
    /\ pc' = "s3_outputs"
    /\ UNCHANGED <<cls, args, locals, raised>>
    /\ UNCHANGED <<script, given>>

\* lines 40-44
S3RegisterOutputs ==
    /\ cls = "S3Bucket" /\ pc = "s3_outputs"
    /\ self' = Put(self, "outputs",
                   [bucket_name |-> self.bucket, bucket_arn |-> self.bucket,
                    bucket_id |-> self.bucket])
    /\ pc' = "done"
    /\ UNCHANGED <<cls, args, locals, resources, raised>>
    /\ UNCHANGED <<script, given>>

S3Next ==
    \/ S3SetTags
    \/ S3CreateBucket
    \/ S3CreateVersioning
    \/ S3RegisterOutputs

(***************************************************************************)
(* IamInstanceProfile.__init__ (deploy-asg/infra/iam/iam.py)               *)
(***************************************************************************)
\* the args dictionaries of the IamInstanceProfile calls of the model
IamArgs ==
    {a @@ b :
        a \in Opt("bucket_arn", {NoResource, <<"web-content", "bucket">>}),
        b \in Opt("tags", {[Environment |-> "dev"]})}

\* lines 20-26
IamValidate ==
    /\ cls = "IamInstanceProfile" /\ pc = "start"
    /\ self' = Put(self, "component", "custom:iam:IamInstanceProfile")
    /\ locals' = [bucket_arn |-> Get(args, "bucket_arn", NoResource),
                  tags |-> Get(args, "tags", EmptyDict)]
    /\ IF Get(args, "bucket_arn", NoResource) = NoResource
       THEN Raise(<<"bucket_arn must be provided">>)
       ELSE pc' = "iam_create" /\ UNCHANGED raised
    /\ UNCHANGED <<cls, args, resources>>
    /\ UNCHANGED <<script, given>>

\* lines 29-87: the role, its inline policy (a child of the role), the
\* instance profile and the outputs
IamCreate ==
    /\ cls = "IamInstanceProfile" /\ pc = "iam_create"
    /\ resources' = resources \o
          << Res("Role", <<"role">>, Component,
                 [assume_role_service |-> "ec2.amazonaws.com",
                  tags |-> Put(locals.tags, "Name", "name-role")]),
             Res("RolePolicy", <<"s3-policy">>, <<"role">>,
                 [role |-> <<"role">>,
                  list_bucket |-> locals.bucket_arn,
                  objects |-> locals.bucket_arn \o <<"/*">>]),
             Res("InstanceProfile", <<"instance-profile">>, Component,
                 [role |-> <<"role">>,
                  tags |-> Put(locals.tags, "Name", "name-instance-profile")]) >>
    /\ self' = Put(Put(Put(Put(self, "role", <<"role">>), "policy", <<"s3-policy">>),
                       "instance_profile", <<"instance-profile">>),
                   "outputs",
                   [role_arn |-> <<"role">>, role_name |-> <<"role">>,
                    instance_profile_arn |-> <<"instance-profile">>,
                    instance_profile_name |-> <<"instance-profile">>])
    /\ pc' = "done"
    /\ UNCHANGED <<cls, args, locals, raised>>
    /\ UNCHANGED <<script, given>>

IamNext ==
    \/ IamValidate
    \/ IamCreate

(***************************************************************************)
(* VpcGatewayEndpoint.__init__ (deploy-asg/infra/vpc/endpoint.py)          *)
(***************************************************************************)
\* the args dictionaries of the VpcGatewayEndpoint calls of the model
EndpointArgs ==
    {a @@ b @@ c :
        a \in Opt("vpc_id", {NoResource, <<"vpc-1">>}),
        b \in Opt("route_table_ids", {<<>>, << <<"public-rt">> >>}),
        c \in Opt("service", {"dynamodb"})}

\* lines 21-31
EndpointValidate ==
    /\ cls = "VpcGatewayEndpoint" /\ pc = "start"
    /\ self' = Put(self, "component", "custom:network:VpcGatewayEndpoint")
    /\ locals' = [vpc_id |-> Get(args, "vpc_id", NoResource),
                  route_table_ids |-> Get(args, "route_table_ids", <<>>),
                  service |-> Get(args, "service", "s3"),
                  tags |-> Get(args, "tags", EmptyDict)]
    /\ IF Get(args, "vpc_id", NoResource) = NoResource
       THEN Raise(<<"vpc_id must be provided">>)
       ELSE IF Get(args, "route_table_ids", <<>>) = <<>>
       THEN Raise(<<"route_table_ids must be provided">>)
       ELSE pc' = "endpoint_create" /\ UNCHANGED raised
    /\ UNCHANGED <<cls, args, resources>>
    /\ UNCHANGED <<script, given>>

\* lines 34-49; aws.get_region() answers us-west-2
EndpointCreate ==
    /\ cls = "VpcGatewayEndpoint" /\ pc = "endpoint_create"
    /\ resources' = Append(resources,
            Res("VpcEndpoint", <<"endpoint">>, Component,
                [vpc_id |-> locals.vpc_id,
                 service_name |-> <<"com.amazonaws.", "us-west-2", ".",
                                    locals.service>>,
                 vpc_endpoint_type |-> "Gateway",
                 route_table_ids |-> locals.route_table_ids,
                 tags |-> Put(locals.tags, "Name", "name-endpoint")]))
    /\ self' = Put(Put(self, "endpoint", <<"endpoint">>),
                   "outputs", [endpoint_id |-> <<"endpoint">>])
    /\ pc' = "done"
    /\ UNCHANGED <<cls, args, locals, raised>>
    /\ UNCHANGED <<script, given>>

EndpointNext ==
    \/ EndpointValidate
    \/ EndpointCreate

(***************************************************************************)
(* TargetGroup.__init__ (deploy-asg/infra/load_balancer/target_group.py)   *)
(***************************************************************************)
\* the args dictionaries of the TargetGroup calls of the model
TargetGroupArgs ==
    {a @@ b @@ c @@ d :
        a \in Opt("vpc_id", {NoResource, <<"vpc-1">>}),
        b \in Opt("port", {8080}),
        c \in Opt("health_check", {EmptyDict, [path |-> "/health", interval |-> 10]}),
        d \in Opt("stickiness", {[enabled |-> FALSE],
                                 [enabled |-> TRUE, cookie_duration |-> 3600]})}

\* lines 40-54
TargetGroupValidate ==
    /\ cls = "TargetGroup" /\ pc = "start"
    /\ self' = Put(self, "component", "custom:loadbalancer:TargetGroup")
    /\ locals' = [vpc_id |-> Get(args, "vpc_id", NoResource),
                  port |-> Get(args, "port", 80),
                  protocol |-> Get(args, "protocol", "HTTP"),
                  target_type |-> Get(args, "target_type", "instance"),
                  health_check |-> Get(args, "health_check", EmptyDict),
                  deregistration_delay |-> Get(args, "deregistration_delay", 300),
                  stickiness |-> Get(args, "stickiness", EmptyDict),
                  tags |-> Get(args, "tags", EmptyDict)]
    /\ IF Get(args, "vpc_id", NoResource) = NoResource
       THEN Raise(<<"vpc_id must be provided">>)
       ELSE pc' = "tg_create" /\ UNCHANGED raised
    /\ UNCHANGED <<cls, args, resources>>
    /\ UNCHANGED <<script, given>>

\* lines 57-103: the health check, each field from its default, the
\* stickiness when enabled, the target group and the outputs
TargetGroupCreate ==
    /\ cls = "TargetGroup" /\ pc = "tg_create"
    /\ resources' = Append(resources,
            Res("TargetGroup", <<"tg">>, Component,
                (IF Get(locals.stickiness, "enabled", FALSE)
                 THEN [stickiness |->
                         [enabled |-> TRUE,
                          type |-> Get(locals.stickiness, "type", "lb_cookie"),
                          cookie_duration |->
                              Get(locals.stickiness, "cookie_duration", 86400)]]
                 ELSE EmptyDict)
                @@ [port |-> locals.port,
                    protocol |-> locals.protocol,
                    target_type |-> locals.target_type,
                    vpc_id |-> locals.vpc_id,
                    deregistration_delay |-> locals.deregistration_delay,
                    tags |-> Put(locals.tags, "Name", "name"),
                    health_check |->
                       LET health_check == locals.health_check
                       IN  [enabled |-> Get(health_check, "enabled", TRUE),
                            path |-> Get(health_check, "path", "/"),
                            protocol |-> Get(health_check, "protocol", "HTTP"),
                            port |-> Get(health_check, "port", "traffic-port"),
                            interval |-> Get(health_check, "interval", 30),
                            timeout |-> Get(health_check, "timeout", 5),
                            healthy_threshold |-> Get(health_check, "healthy_threshold", 2),
                            unhealthy_threshold |-> Get(health_check, "unhealthy_threshold", 2),
                            matcher |-> Get(health_check, "matcher", "200")]]))
    /\ self' = Put(Put(self, "target_group", <<"tg">>), "outputs",
                   [target_group_id |-> <<"tg">>,
                    target_group_arn |-> <<"tg">>,
                    target_group_name |-> <<"tg">>])
    /\ pc' = "done"
    /\ UNCHANGED <<cls, args, locals, raised>>
    /\ UNCHANGED <<script, given>>

TargetGroupNext ==
    \/ TargetGroupValidate
    \/ TargetGroupCreate

(***************************************************************************)
(* LaunchTemplate.__init__ (deploy-asg/infra/asg/launch_template.py)       *)
(***************************************************************************)
\* the args dictionaries of the LaunchTemplate calls of the model
LaunchTemplateArgs ==
    {a @@ b @@ c @@ d @@ e @@ f @@ g :
        a \in Opt("security_group_ids", {<<>>, << <<"web", "sg">> >>}),
        b \in Opt("key_name", {None, "key-1"}),
        c \in Opt("user_data", {<<"#!/bin/bash">>}),
        d \in Opt("iam_instance_profile",
                  {<<"ec2-s3", "instance-profile">>,
                   <<"arn:", "aws:iam::1:instance-profile/web">>}),
        e \in Opt("block_device_mappings",
                  {<< [device_name |-> "/dev/sdf", ebs |-> TRUE, volume_size |-> 20],
                      [device_name |-> "/dev/sdg"] >>}),
        f \in Opt("ebs_optimized", {TRUE}),
        g \in Opt("tag_specifications",
                  {<< [tags |-> [Tier |-> "web"]],
                      [resource_type |-> "volume"] >>})}

\* lines 38-57: the component registers itself, reads its configuration and
\* checks security_group_ids
LaunchTemplateValidate ==
    /\ cls = "LaunchTemplate" /\ pc = "start"
    /\ self' = Put(self, "component", "custom:asg:LaunchTemplate")
    /\ locals' = [instance_type |-> Get(args, "instance_type", "t2.micro"),
                  ami |-> Get(args, "ami", None),
                  key_name |-> Get(args, "key_name", None),
                  security_group_ids |-> Get(args, "security_group_ids", <<>>),
                  user_data |-> Get(args, "user_data", <<>>),
                  iam_instance_profile |-> Get(args, "iam_instance_profile", NoResource),
                  enable_monitoring |-> Get(args, "enable_monitoring", FALSE),
                  ebs_optimized |-> Get(args, "ebs_optimized", FALSE),
                  volume_type |-> Get(args, "volume_type", "gp3"),
                  volume_size |-> Get(args, "volume_size", 8),
                  delete_on_termination |-> Get(args, "delete_on_termination", TRUE),
                  encrypted |-> Get(args, "encrypted", FALSE),
                  block_device_mappings |-> Get(args, "block_device_mappings", <<>>),
                  tags |-> Get(args, "tags", EmptyDict),
                  tag_specifications |-> Get(args, "tag_specifications", <<>>)]
    /\ IF Get(args, "security_group_ids", <<>>) = <<>>
       THEN Raise(<<"security_group_ids must be provided">>)
       ELSE pc' = "lt_ami" /\ UNCHANGED raised
    /\ UNCHANGED <<cls, args, resources>>
    /\ UNCHANGED <<script, given>>

\* lines 60-75: an unspecified AMI resolves to the latest Amazon Linux image
LaunchTemplateGetAmi ==
    /\ cls = "LaunchTemplate" /\ pc = "lt_ami"
    /\ locals' = IF Truthy(locals.ami) THEN locals
                 ELSE Put(locals, "ami", LatestAmi)
    /\ pc' = "lt_create"
    /\ UNCHANGED <<cls, args, self, resources, raised>>
    /\ UNCHANGED <<script, given>>

\* lines 114-142: the caller's block device mappings, or the root volume
BlockDeviceMappings(l) ==
    IF l.block_device_mappings # <<>>
    THEN [k \in 1..Len(l.block_device_mappings) |->
            LET mapping == l.block_device_mappings[k]
            IN  (IF Get(mapping, "ebs", FALSE)
                 THEN [ebs |->
                         [volume_size |-> Get(mapping, "volume_size", 8),
                          volume_type |-> Get(mapping, "volume_type", "gp3"),
                          delete_on_termination |->
                              Get(mapping, "delete_on_termination", TRUE),
                          encrypted |-> Get(mapping, "encrypted", FALSE)]]
                 ELSE EmptyDict)
                @@ [device_name |-> Get(mapping, "device_name", None)]]
    ELSE << [device_name |-> "/dev/xvda",
             ebs |-> [volume_size |-> l.volume_size,
                      volume_type |-> l.volume_type,
                      delete_on_termination |-> l.delete_on_termination,
                      encrypted |-> l.encrypted]] >>

\* lines 78-151: lt_args; the user data goes base64-encoded, the profile by
\* arn when the reference starts with "arn:" and by name otherwise
LaunchTemplateLtArgs(l) ==
    (IF Truthy(l.key_name) THEN [key_name |-> l.key_name] ELSE EmptyDict)
    @@ (IF l.user_data # <<>> THEN [user_data |-> <<"base64:">> \o l.user_data]
        ELSE EmptyDict)
    @@ (IF l.iam_instance_profile # NoResource
        THEN [iam_instance_profile |->
                IF l.iam_instance_profile[1] = "arn:"
                THEN [arn |-> l.iam_instance_profile]
                ELSE [name |-> l.iam_instance_profile]]
        ELSE EmptyDict)
    @@ (IF l.enable_monitoring THEN [monitoring |-> [enabled |-> TRUE]]
        ELSE EmptyDict)
    @@ (IF l.ebs_optimized THEN [ebs_optimized |-> "true"] ELSE EmptyDict)
    @@ (IF l.tag_specifications # <<>>
        THEN [tag_specifications |->
                [k \in 1..Len(l.tag_specifications) |->
                    [resource_type |->
                        Get(l.tag_specifications[k], "resource_type", "instance"),
                     tags |-> Get(l.tag_specifications[k], "tags", EmptyDict)]]]
        ELSE EmptyDict)
    @@ [image_id |-> l.ami,
        instance_type |-> l.instance_type,
        vpc_security_group_ids |-> l.security_group_ids,
        tags |-> Put(l.tags, "Name", "name"),
        block_device_mappings |-> BlockDeviceMappings(l)]

\* lines 154-168: the launch template and the outputs
LaunchTemplateCreate ==
    /\ cls = "LaunchTemplate" /\ pc = "lt_create"
    /\ resources' = Append(resources,
            Res("LaunchTemplate", <<"lt">>, Component, LaunchTemplateLtArgs(locals)))
    /\ self' = Put(Put(self, "launch_template", <<"lt">>), "outputs",
                   [launch_template_id |-> <<"lt">>,
                    launch_template_arn |-> <<"lt">>,
                    launch_template_name |-> <<"lt">>])
    /\ pc' = "done"
    /\ UNCHANGED <<cls, args, locals, raised>>
    /\ UNCHANGED <<script, given>>

LaunchTemplateNext ==
    \/ LaunchTemplateValidate
    \/ LaunchTemplateGetAmi
    \/ LaunchTemplateCreate

(***************************************************************************)
(* Compositions: a function or a program that calls constructors one after *)
(* the other.  script is the composition's own state: its position, its    *)
(* inputs (config), its variables (vars), the call in progress, and the    *)
(* resources and stack exports of the constructors that have returned.     *)
(* A constructor called from a composition runs in pc, cls, args, locals,  *)
(* self and resources as a constructor called alone does; when it raises,  *)
(* nothing catches the error and the composition stops there.  An error    *)
(* the composition raises itself is raised with no constructor running     *)
(* (cls is none).                                                          *)
(***************************************************************************)
\* a composition about to run on its inputs; the name none when a
\* constructor is called alone
ScriptAt(name, first, config) ==
    [name |-> name, pc |-> first, config |-> config, vars |-> EmptyDict,
     call |-> EmptyDict, registered |-> <<>>, exports |-> EmptyDict]

\* the composition is at a position, no constructor running
AtScript(name, at) == script.name = name /\ script.pc = at /\ pc = "script"

\* x = Class(name, args): the constructor starts on a frame of its own
Call(var, class, name, a, next) ==
    /\ cls' = class
    /\ args' = a
    /\ given' = a
    /\ pc' = "start"
    /\ locals' = EmptyDict
    /\ self' = EmptyDict
    /\ resources' = <<>>
    /\ script' = [script EXCEPT !.call = [var |-> var, name |-> name],
                                !.pc = next]
    /\ UNCHANGED raised

\* the resources of a component with their parents left as the constructor
\* named them
Qualified_BareParent(name, rs) ==
    [k \in 1..Len(rs) |-> [rs[k] EXCEPT !.name = name \o @]]

\* a resource of a component, by the name the engine knows it under:
\* f"{name}-kind" with the component's name
Qualified(name, rs) ==
    [k \in 1..Len(rs) |->
        [rs[k] EXCEPT !.name = name \o @,
                      !.parent = IF @ = Component THEN name ELSE name \o @]]

\* the constructor returns: the variable holds the component, the engine its
\* resources
Return ==
    /\ script.name # "none" /\ pc = "done"
    /\ script' = [script EXCEPT
            !.vars = Put(@, script.call.var,
                         [name |-> script.call.name, self |-> self]),
            !.registered = @ \o Qualified(script.call.name, resources)]
    /\ pc' = "script"
    /\ UNCHANGED <<cls, args, locals, self, resources, raised, given>>

\* component.attr.id, and [x.id for x in component.attr]
Id(component, attr) == component.name \o component.self[attr]

Ids(component, attr) ==
    [k \in 1..Len(component.self[attr]) |-> component.name \o component.self[attr][k]]

\* f"{value}": None formats as the text None
FStr(value) == IF value = None THEN "None" ELSE value

\* "text" + value + "text" raises TypeError when a value is None
ConcatenationError(values) ==
    IF \E k \in 1..Len(values) : values[k] = None
    THEN <<"TypeError: can only concatenate str (not \"NoneType\") to str">>
    ELSE NoError

\* int(value) of the decimal text of a configuration value
RECURSIVE ParseInt(_)
ParseInt(digits) ==
    IF digits = <<>> THEN 0
    ELSE 10 * ParseInt(SubSeq(digits, 1, Len(digits) - 1))
         + (CHOOSE d \in 0..9 : Digit(d) = digits[Len(digits)])

(***************************************************************************)
(* create_common_security_groups (infra/security_groups/security_groups.py)*)
(***************************************************************************)
\* the parameters of the create_common_security_groups calls of the model
CommonGroupsParameters ==
    {[name |-> "prod"] @@ a @@ b :
        a \in {[vpc_id |-> NoResource], [vpc_id |-> <<"vpc-1">>]},
        b \in Opt("tags", {EmptyDict, [Project |-> "shop"]})}

\* line 336: tags = tags or {}
CommonTags(tier) == Put(Get(script.config, "tags", EmptyDict), "Tier", tier)

\* lines 336-346
CommonAlb ==
    /\ AtScript("create_common_security_groups", "alb_sg")
    /\ Call("alb_sg", "LoadBalancerSecurityGroup", <<script.config.name, "-alb">>,
            [vpc_id |-> script.config.vpc_id,
             internal |-> FALSE,
             tags |-> CommonTags("load-balancer")],
            "web_sg")

\* lines 349-358
CommonWeb ==
    /\ AtScript("create_common_security_groups", "web_sg")
    /\ Call("web_sg", "WebSecurityGroup", <<script.config.name, "-web">>,
            [vpc_id |-> script.config.vpc_id,
             http_cidr_blocks |-> <<"10.0.0.0/8">>,
             https_cidr_blocks |-> <<"10.0.0.0/8">>,
             ssh_cidr_blocks |-> <<"10.0.0.0/8">>,
             tags |-> CommonTags("web")],
            "app_sg")

\* lines 361-369
CommonApp ==
    /\ AtScript("create_common_security_groups", "app_sg")
    /\ Call("app_sg", "ApplicationSecurityGroup", <<script.config.name, "-app">>,
            [vpc_id |-> script.config.vpc_id,
             app_port |-> 8080,
             source_security_group_id |-> Id(script.vars.web_sg, "security_group"),
             tags |-> CommonTags("application")],
            "db_sg")

\* lines 372-380
CommonDb ==
    /\ AtScript("create_common_security_groups", "db_sg")
    /\ Call("db_sg", "DatabaseSecurityGroup", <<script.config.name, "-db">>,
            [vpc_id |-> script.config.vpc_id,
             database_type |-> <<"p", "o", "s", "t", "g", "r", "e", "s">>,
             source_security_group_id |-> Id(script.vars.app_sg, "security_group"),
             tags |-> CommonTags("database")],
            "return")

\* lines 382-387
CommonReturn ==
    /\ AtScript("create_common_security_groups", "return")
    /\ script' = [script EXCEPT
            !.vars = Put(@, "result",
                         [alb |-> script.vars.alb_sg, web |-> script.vars.web_sg,
                          app |-> script.vars.app_sg, db |-> script.vars.db_sg]),
            !.pc = "end"]
    /\ UNCHANGED <<pc, cls, args, locals, self, resources, raised, given>>

CommonGroupsNext ==
    \/ CommonAlb
    \/ CommonWeb
    \/ CommonApp
    \/ CommonDb
    \/ CommonReturn
(***************************************************************************)
(* The program branch/tech-Branch/__main__.py                              *)
(***************************************************************************)
\* the stack configurations the program runs on: each value set or not
TechBranchConfigs ==
    {a @@ b @@ c @@ d :
        a \in Opt("branch", {"tech"}),
        b \in Opt("env", {"dev"}),
        c \in Opt("ec2:instanceType", {"t3.micro"}),
        d \in Opt("keyName", {"key-1"})}

\* f"{branch_name}-{environment}-{suffix}"
StackName(v, suffix) ==
    <<FStr(v.branch_name), "-", FStr(v.environment), "-", suffix>>

\* lines 19-28: config.get answers None for a value that is not set
TechBranchReadConfig ==
    /\ AtScript("tech-Branch", "config")
    /\ script' = [script EXCEPT
            !.vars = [branch_name |-> Get(script.config, "branch", None),
                      environment |-> Get(script.config, "env", None),
                      instance_type |-> Get(script.config, "ec2:instanceType", None),
                      key_name |-> Get(script.config, "keyName", None)],
            !.pc = "network"]
    /\ UNCHANGED <<pc, cls, args, locals, self, resources, raised, given>>

\* the tags the programs give their components
StackTags(v, more) ==
    more @@ [Environment |-> v.environment, ManagedBy |-> "Pulumi"]

\* lines 31-45; availability_zones is None, read as not given
TechBranchNetwork ==
    /\ AtScript("tech-Branch", "network")
    /\ Call("network", "VpcNetwork", StackName(script.vars, "network"),
            [cidr_block |-> DefaultCidrBlock,
             enable_nat_gateway |-> FALSE,
             enable_dns_hostnames |-> TRUE,
             enable_dns_support |-> TRUE,
             tags |-> StackTags(script.vars, [Project |-> script.vars.branch_name])],
            "web_sg")

\* lines 57-68 (tech-Branch), 50-62 (tech-branch-wst): the args of web_sg
StackWebSgArgs(v) ==
    [vpc_id |-> Id(v.network, "vpc"),
     allow_ssh |-> TRUE,
     ssh_cidr_blocks |-> <<"0.0.0.0/0">>,
     http_cidr_blocks |-> <<"0.0.0.0/0">>,
     https_cidr_blocks |-> <<"0.0.0.0/0">>,
     tags |-> StackTags(v, [Project |-> v.branch_name, Tier |-> "web"])]

\* lines 48-63
TechBranchWebSg ==
    /\ AtScript("tech-Branch", "web_sg")
    /\ Call("web_sg", "WebSecurityGroup", StackName(script.vars, "web-sg"),
            StackWebSgArgs(script.vars), "internal_sg")

\* the args of internal_sg, all traffic from one CIDR block
StackInternalSgArgs(v, cidr_block) ==
    [vpc_id |-> Id(v.network, "vpc"),
     description |-> <<"Security group for internal communication">>,
     ingress_rules |->
        << [protocol |-> "-1", from_port |-> 0, to_port |-> 0,
            cidr_blocks |-> <<cidr_block>>,
            description |-> <<"Allow all traffic from VPC">>] >>,
     tags |-> StackTags(v, [Purpose |-> "internal-communication"])]

\* lines 66-86
TechBranchInternalSg ==
    /\ AtScript("tech-Branch", "internal_sg")
    /\ Call("internal_sg", "SecurityGroup", StackName(script.vars, "internal-sg"),
            StackInternalSgArgs(script.vars, "10.0.0.0/16"), "user_data")

\* lines 89-138: the user data, text + environment + text + branch_name + text
TechBranchUserData ==
    /\ AtScript("tech-Branch", "user_data")
    /\ LET text == <<"#!/bin/bash ... Environment: ", script.vars.environment,
                     " Branch: ", script.vars.branch_name,
                     " ... systemctl status nginx">>
       IN  IF ConcatenationError(text) # NoError
           THEN /\ Raise(ConcatenationError(text))
                /\ cls' = "none" /\ args' = EmptyDict /\ given' = EmptyDict
                /\ locals' = EmptyDict /\ self' = EmptyDict
                /\ resources' = <<>>
                /\ UNCHANGED script
           ELSE /\ script' = [script EXCEPT
                        !.vars = Put(@, "nginx_user_data", text),
                        !.pc = "web_server"]
                /\ UNCHANGED <<pc, cls, args, locals, self, resources, raised, given>>

\* lines 141-159: network.public_subnets[0] raises IndexError on an empty list
TechBranchWebServer ==
    /\ AtScript("tech-Branch", "web_server")
    /\ IF script.vars.network.self.public_subnets = <<>>
       THEN /\ Raise(<<"IndexError: list index out of range">>)
            /\ cls' = "none" /\ args' = EmptyDict /\ given' = EmptyDict
            /\ locals' = EmptyDict /\ self' = EmptyDict
            /\ resources' = <<>>
            /\ UNCHANGED script
       ELSE Call("web_server", "Ec2Instance", StackName(script.vars, "web-server"),
                 [instance_type |-> script.vars.instance_type,
                  subnet_id |-> Ids(script.vars.network, "public_subnets")[1],
                  security_group_ids |->
                     << Id(script.vars.web_sg, "security_group"),
                        Id(script.vars.internal_sg, "security_group") >>,
                  key_name |-> script.vars.key_name,
                  user_data |-> script.vars.nginx_user_data,
                  tags |-> StackTags(script.vars, [Tier |-> "web"])],
                 "exports")

\* the exports both programs make of the network and the security groups
NetworkExports(v) ==
    (IF v.network.self.nat_gateways # <<>>
     THEN [nat_gateway_ids |-> Ids(v.network, "nat_gateways"),
           nat_gateway_ips |-> Ids(v.network, "nat_eips")]
     ELSE EmptyDict)
    @@ [vpc_id |-> Id(v.network, "vpc"),
        vpc_cidr |-> Id(v.network, "vpc"),
        internet_gateway_id |-> Id(v.network, "internet_gateway"),
        public_subnet_ids |-> Ids(v.network, "public_subnets"),
        private_subnet_ids |-> Ids(v.network, "private_subnets"),
        web_security_group_id |-> Id(v.web_sg, "security_group"),
        internal_security_group_id |-> Id(v.internal_sg, "security_group")]

\* lines 162-192
TechBranchExports ==
    /\ AtScript("tech-Branch", "exports")
    /\ script' = [script EXCEPT
            !.exports = NetworkExports(script.vars)
                        @@ [web_server_id |-> Id(script.vars.web_server, "instance"),
                            ssh_command |->
                               <<"ssh -i <your-key>.pem ec2-user@">>
                               \o Id(script.vars.web_server, "instance")],
            !.pc = "end"]
    /\ UNCHANGED <<pc, cls, args, locals, self, resources, raised, given>>

TechBranchNext ==
    \/ TechBranchReadConfig
    \/ TechBranchNetwork
    \/ TechBranchWebSg
    \/ TechBranchInternalSg
    \/ TechBranchUserData
    \/ TechBranchWebServer
    \/ TechBranchExports
(***************************************************************************)
(* The program deploy-asg/branch/tech-branch-wst/__main__.py               *)
(***************************************************************************)
\* the stack configurations the program runs on: nothing set, some values
\* set alone, and everything or the ec2 object alone set with each of the
\* three sizes set or not
WstConfigs ==
    LET ec2_sizes ==
            {a @@ b @@ c :
                a \in Opt("minSize", {<<"3">>}),
                b \in Opt("maxSize", {<<"1">>}),
                c \in Opt("desiredCapacity", {<<"3">>})}
    IN
    {EmptyDict,
     [vpc |-> EmptyDict, ec2 |-> EmptyDict],
     [branch |-> "tech"],
     [env |-> "dev", keyName |-> "key-1"],
     [vpc |-> [cidrBlock |-> CallerCidrBlock]],
     [ec2 |-> [instanceType |-> "t3.small", volumeSize |-> <<"5", "0">>,
               encrypted |-> FALSE]]}
    \cup {[branch |-> "tech", env |-> "dev", keyName |-> "key-1",
           region |-> "eu-west-1", vpc |-> [enableNatGateway |-> TRUE],
           ec2 |-> sizes] : sizes \in ec2_sizes}
    \cup {[ec2 |-> sizes] : sizes \in ec2_sizes}

\* int(config.get(key, default))
IntOr(config, key, default) ==
    IF Has(config, key) THEN ParseInt(config[key]) ELSE default

\* lines 25-35: get_object(...) or {}, get(...) or "t3.micro"
WstReadConfig ==
    /\ AtScript("tech-branch-wst", "config")
    /\ LET ec2_config == Get(script.config, "ec2", EmptyDict)
       IN  script' = [script EXCEPT
              !.vars = [branch_name |-> Get(script.config, "branch", None),
                        environment |-> Get(script.config, "env", None),
                        vpc_config |-> Get(script.config, "vpc", EmptyDict),
                        ec2_config |-> ec2_config,
                        instance_type |->
                           IF Truthy(Get(ec2_config, "instanceType", None))
                           THEN ec2_config["instanceType"] ELSE "t3.micro",
                        key_name |-> Get(script.config, "keyName", None)],
              !.pc = "network"]
    /\ UNCHANGED <<pc, cls, args, locals, self, resources, raised, given>>

\* lines 38-52; availability_zones is None, read as not given
WstNetwork ==
    /\ AtScript("tech-branch-wst", "network")
    /\ Call("network", "VpcNetwork", StackName(script.vars, "network"),
            [cidr_block |-> Get(script.vars.vpc_config, "cidrBlock", DefaultCidrBlock),
             enable_nat_gateway |->
                Get(script.vars.vpc_config, "enableNatGateway", FALSE),
             enable_dns_hostnames |->
                Get(script.vars.vpc_config, "enableDnsHostnames", TRUE),
             enable_dns_support |->
                Get(script.vars.vpc_config, "enableDnsSupport", TRUE),
             tags |-> StackTags(script.vars, [Project |-> script.vars.branch_name])],
            "web_sg")

\* lines 55-70
WstWebSg ==
    /\ AtScript("tech-branch-wst", "web_sg")
    /\ Call("web_sg", "WebSecurityGroup", StackName(script.vars, "web-sg"),
            StackWebSgArgs(script.vars), "internal_sg")

\* lines 73-93
WstInternalSg ==
    /\ AtScript("tech-branch-wst", "internal_sg")
    /\ Call("internal_sg", "SecurityGroup", StackName(script.vars, "internal-sg"),
            StackInternalSgArgs(script.vars, "0.0.0.0/0"), "content_bucket")

\* lines 96-106
WstContentBucket ==
    /\ AtScript("tech-branch-wst", "content_bucket")
    /\ Call("content_bucket", "S3Bucket", StackName(script.vars, "web-content"),
            [bucket_name |-> StackName(script.vars, "web-content-bucket"),
             versioning_enabled |-> FALSE,
             tags |-> StackTags(script.vars,
                                [Project |-> script.vars.branch_name,
                                 Purpose |-> "web-content"])],
            "instance_profile")

\* lines 109-119
WstInstanceProfile ==
    /\ AtScript("tech-branch-wst", "instance_profile")
    /\ Call("ec2_instance_profile", "IamInstanceProfile",
            StackName(script.vars, "ec2-s3"),
            [bucket_arn |-> Id(script.vars.content_bucket, "bucket"),
             tags |-> StackTags(script.vars, [Project |-> script.vars.branch_name])],
            "s3_endpoint")

\* lines 122-135
WstS3Endpoint ==
    /\ AtScript("tech-branch-wst", "s3_endpoint")
    /\ Call("s3_endpoint", "VpcGatewayEndpoint", StackName(script.vars, "s3-endpoint"),
            [vpc_id |-> Id(script.vars.network, "vpc"),
             route_table_ids |->
                <<Id(script.vars.network, "public_route_table")>>
                \o Ids(script.vars.network, "private_route_tables"),
             service |-> "s3",
             tags |-> StackTags(script.vars, [Project |-> script.vars.branch_name])],
            "user_data")

\* lines 138-259: the region, and the user data, the f-strings and the
\* bucket's name put together by pulumi.Output.concat
WstUserData ==
    /\ AtScript("tech-branch-wst", "user_data")
    /\ LET region == IF Truthy(Get(script.config, "region", None))
                     THEN script.config["region"] ELSE "us-west-2"
       IN  script' = [script EXCEPT
              !.vars = Put(Put(@, "region", region), "nginx_user_data",
                           <<"#!/bin/bash ... BUCKET_NAME=">>
                           \o Id(script.vars.content_bucket, "bucket")
                           \o <<" ... endpoint=", region,
                                " ... Environment: ", FStr(script.vars.environment),
                                " Branch: ", FStr(script.vars.branch_name),
                                " ... systemctl status nginx">>),
              !.pc = "launch_template"]
    /\ UNCHANGED <<pc, cls, args, locals, self, resources, raised, given>>

\* lines 262-305
WstLaunchTemplate ==
    /\ AtScript("tech-branch-wst", "launch_template")
    /\ Call("web_launch_template", "LaunchTemplate", StackName(script.vars, "web-lt"),
            [instance_type |-> script.vars.instance_type,
             security_group_ids |->
                << Id(script.vars.web_sg, "security_group"),
                   Id(script.vars.internal_sg, "security_group") >>,
             key_name |-> script.vars.key_name,
             user_data |-> script.vars.nginx_user_data,
             iam_instance_profile |->
                Id(script.vars.ec2_instance_profile, "instance_profile"),
             volume_type |-> Get(script.vars.ec2_config, "volumeType", "gp3"),
             volume_size |-> IntOr(script.vars.ec2_config, "volumeSize", 30),
             delete_on_termination |->
                Get(script.vars.ec2_config, "deleteOnTermination", TRUE),
             encrypted |-> Get(script.vars.ec2_config, "encrypted", TRUE),
             enable_monitoring |-> TRUE,
             tags |-> StackTags(script.vars,
                                [Project |-> script.vars.branch_name, Tier |-> "web"]),
             tag_specifications |->
                << [resource_type |-> "instance",
                    tags |-> StackTags(script.vars,
                                [Project |-> script.vars.branch_name, Tier |-> "web"])],
                   [resource_type |-> "volume",
                    tags |-> StackTags(script.vars,
                                [Project |-> script.vars.branch_name])] >>],
            "target_group")

\* lines 308-333
WstTargetGroup ==
    /\ AtScript("tech-branch-wst", "target_group")
    /\ Call("web_target_group", "TargetGroup", StackName(script.vars, "web-tg"),
            [vpc_id |-> Id(script.vars.network, "vpc"),
             port |-> 80,
             protocol |-> "HTTP",
             target_type |-> "instance",
             health_check |-> [enabled |-> TRUE, path |-> "/", protocol |-> "HTTP",
                               interval |-> 30, timeout |-> 5,
                               healthy_threshold |-> 2, unhealthy_threshold |-> 2,
                               matcher |-> "200"],
             deregistration_delay |-> 30,
             tags |-> StackTags(script.vars,
                                [Project |-> script.vars.branch_name, Tier |-> "web"])],
            "alb")

\* lines 336-363
WstAlb ==
    /\ AtScript("tech-branch-wst", "alb")
    /\ Call("web_alb", "ApplicationLoadBalancer", StackName(script.vars, "web-alb"),
            [vpc_id |-> Id(script.vars.network, "vpc"),
             subnet_ids |-> Ids(script.vars.network, "public_subnets"),
             security_group_ids |-> <<Id(script.vars.web_sg, "security_group")>>,
             internal |-> FALSE,
             enable_deletion_protection |-> FALSE,
             enable_http2 |-> TRUE,
             idle_timeout |-> 60,
             listeners |->
                << [port |-> 80, protocol |-> "HTTP",
                    default_action |->
                       [type |-> "forward",
                        target_group_arn |->
                           Id(script.vars.web_target_group, "target_group")]] >>,
             tags |-> StackTags(script.vars,
                                [Project |-> script.vars.branch_name, Tier |-> "web"])],
            "asg")

\* lines 366-385
WstAsg ==
    /\ AtScript("tech-branch-wst", "asg")
    /\ Call("web_asg", "AutoScalingGroup", StackName(script.vars, "web-asg"),
            [launch_template_id |->
                Id(script.vars.web_launch_template, "launch_template"),
             min_size |-> IntOr(script.vars.ec2_config, "minSize", 2),
             max_size |-> IntOr(script.vars.ec2_config, "maxSize", 4),
             desired_capacity |-> IntOr(script.vars.ec2_config, "desiredCapacity", 2),
             vpc_zone_identifiers |-> Ids(script.vars.network, "private_subnets"),
             health_check_type |-> "ELB",
             health_check_grace_period |-> 300,
             target_group_arns |-> <<Id(script.vars.web_target_group, "target_group")>>,
             tags |-> StackTags(script.vars,
                                [Name |-> StackName(script.vars, "web-asg"),
                                 Project |-> script.vars.branch_name,
                                 Tier |-> "web"])],
            "exports")

\* lines 388-444
WstExports ==
    /\ AtScript("tech-branch-wst", "exports")
    /\ script' = [script EXCEPT
          !.exports =
              NetworkExports(script.vars)
              @@ [launch_template_id |->
                     Id(script.vars.web_launch_template, "launch_template"),
                  target_group_arn |-> Id(script.vars.web_target_group, "target_group"),
                  alb_arn |-> Id(script.vars.web_alb, "alb"),
                  asg_id |-> Id(script.vars.web_asg, "asg"),
                  content_bucket_name |-> Id(script.vars.content_bucket, "bucket"),
                  ec2_instance_profile_arn |->
                     Id(script.vars.ec2_instance_profile, "instance_profile"),
                  ec2_role_arn |-> Id(script.vars.ec2_instance_profile, "role"),
                  s3_endpoint_id |-> Id(script.vars.s3_endpoint, "endpoint"),
                  application_url |->
                     <<"http://">> \o Id(script.vars.web_alb, "alb")],
          !.pc = "end"]
    /\ UNCHANGED <<pc, cls, args, locals, self, resources, raised, given>>

WstNext ==
    \/ WstReadConfig
    \/ WstNetwork
    \/ WstWebSg
    \/ WstInternalSg
    \/ WstContentBucket
    \/ WstInstanceProfile
    \/ WstS3Endpoint
    \/ WstUserData
    \/ WstLaunchTemplate
    \/ WstTargetGroup
    \/ WstAlb
    \/ WstAsg
    \/ WstExports

(***************************************************************************)
(* The program infra/ec2/__main__.py                                       *)
(***************************************************************************)
\* the stack configurations the program runs on
Ec2MainConfigs ==
    {a @@ b :
        a \in Opt("instanceType", {"", "t3.small"}),
        b \in Opt("keyName", {"key-1"})}

\* lines 8-29: the program reads its configuration and constructs the
\* instance component (8-24); once the constructor has returned it exports
\* the instance's details (26-29)
Ec2Main ==
    /\ script.name = "infra/ec2" /\ pc = "script"
    /\ IF script.pc = "create"
       THEN Call("ec2_instance", "Ec2Instance", <<"my-ec2-instance">>,
                 [instance_type |->
                     IF Truthy(Get(script.config, "instanceType", None))
                     THEN script.config["instanceType"]
                     ELSE "t2.micro",
                  key_name |-> Get(script.config, "keyName", None),
                  tags |-> [Environment |-> "dev", Project |-> "pulumi-ec2"]],
                 "exports")
       ELSE /\ script.pc = "exports"
            /\ script' = [script EXCEPT
                  !.exports =
                      [instance_id |-> Id(script.vars.ec2_instance, "instance"),
                       public_ip |->
                          Id(script.vars.ec2_instance, "instance") \o <<"public_ip">>,
                       public_dns |->
                          Id(script.vars.ec2_instance, "instance") \o <<"public_dns">>,
                       private_ip |->
                          Id(script.vars.ec2_instance, "instance") \o <<"private_ip">>],
                  !.pc = "end"]
            /\ UNCHANGED <<pc, cls, args, locals, self, resources, raised, given>>

(***************************************************************************)
(* The calls: a constructor alone, or a composition.                       *)
(***************************************************************************)
\* a constructor called alone, on the args of a caller, or a composition
\* about to run, no constructor called yet
Init ==
    /\ \/ /\ \/ cls = "VpcNetwork" /\ args \in VpcArgs
             \/ cls = "SecurityGroup" /\ args \in SecurityGroupArgs
             \/ cls = "WebSecurityGroup" /\ args \in WebArgs
             \/ cls = "DatabaseSecurityGroup" /\ args \in DatabaseArgs
             \/ cls = "LoadBalancerSecurityGroup" /\ args \in LoadBalancerArgs
             \/ cls = "ApplicationSecurityGroup" /\ args \in ApplicationArgs
             \/ cls = "ApplicationLoadBalancer" /\ args \in AlbArgs
             \/ cls = "Ec2Instance" /\ args \in Ec2Args
             \/ cls = "AutoScalingGroup" /\ args \in AsgArgs
             \/ cls = "S3Bucket" /\ args \in S3Args
             \/ cls = "IamInstanceProfile" /\ args \in IamArgs
             \/ cls = "VpcGatewayEndpoint" /\ args \in EndpointArgs
             \/ cls = "TargetGroup" /\ args \in TargetGroupArgs
             \/ cls = "LaunchTemplate" /\ args \in LaunchTemplateArgs
          /\ pc = "start"
          /\ script = ScriptAt("none", "none", EmptyDict)
       \/ /\ \/ \E parameters \in CommonGroupsParameters :
                   script = ScriptAt("create_common_security_groups", "alb_sg",
                                     parameters)
             \/ \E config \in TechBranchConfigs :
                   script = ScriptAt("tech-Branch", "config", config)
             \/ \E config \in WstConfigs :
                   script = ScriptAt("tech-branch-wst", "config", config)
             \/ \E config \in Ec2MainConfigs :
                   script = ScriptAt("infra/ec2", "create", config)
          /\ cls = "none"
          /\ args = EmptyDict
          /\ pc = "script"
    /\ given = args
    /\ locals = EmptyDict
    /\ self = EmptyDict
    /\ resources = <<>>
    /\ raised = NoError

\* a step of the constructor that is running, its return to the
\* composition, or a step of the composition
Next ==
    \/ VpcNext
    \/ SecurityGroupNext
    \/ AlbNext
    \/ Ec2Next
    \/ AsgNext
    \/ S3Next
    \/ IamNext
    \/ EndpointNext
    \/ TargetGroupNext
    \/ LaunchTemplateNext
    \/ Return
    \/ CommonGroupsNext
    \/ TechBranchNext
    \/ WstNext
    \/ Ec2Main

Spec == Init /\ [][Next]_vars

(***************************************************************************)
(* Properties of VpcNetwork.                                               *)
(***************************************************************************)
VpcDone == cls = "VpcNetwork" /\ pc = "done"

PublicSubnets == SelectSeq(resources,
    LAMBDA r : r.type = "Subnet" /\ r.props.map_public_ip_on_launch)

PrivateSubnets == SelectSeq(resources,
    LAMBDA r : r.type = "Subnet" /\ ~r.props.map_public_ip_on_launch)

PrivateRouteTables == SelectSeq(resources,
    LAMBDA r : r.type = "RouteTable" /\ r.name # <<"public-rt">>)

\* the routes of private route table i
PrivateRoutesOf(i) == SelectSeq(resources,
    LAMBDA r : r.type = "Route" /\ r.props.route_table_id = <<"private-rt", i>>)

\* the caller left the list unset (or passed an empty one)
Unsupplied(key) == ~Has(args, key) \/ args[key] = <<>>

\* the list is unset or has one entry per zone
ValidCidrs(key) ==
    Unsupplied(key) \/ Len(args[key]) = Len(locals.availability_zones)

ValidVpcInput == ValidCidrs("public_subnet_cidrs") /\ ValidCidrs("private_subnet_cidrs")

NatEnabled == Get(args, "enable_nat_gateway", TRUE)

\* C1: for a valid input (the subnet CIDR lists unset or as long as the zone
\* list, n the length of the zone list the builder uses) the builder creates
\* n public and n private subnets.
C1_SubnetCountsEqualZones ==
    (VpcDone /\ ValidVpcInput) =>
        /\ Len(PublicSubnets) = Len(locals.availability_zones)
        /\ Len(PrivateSubnets) = Len(locals.availability_zones)
        /\ Len(self.public_subnets) = Len(self.private_subnets)

C1_Witness ==
    /\ VpcDone /\ ValidVpcInput
    /\ ~Unsupplied("public_subnet_cidrs") /\ Unsupplied("private_subnet_cidrs")
    /\ Len(PublicSubnets) = 2 /\ Len(PrivateSubnets) = 2

\* private route table i has one default route, to NAT gateway i
RoutedToNat(i) ==
    /\ PrivateRoutesOf(i) # <<>>
    /\ Tail(PrivateRoutesOf(i)) = <<>>
    /\ Head(PrivateRoutesOf(i)).props.destination_cidr_block = "0.0.0.0/0"
    /\ Head(PrivateRoutesOf(i)).props.nat_gateway_id = <<"nat-gw", i>>
    /\ \E k \in 1..Len(resources) :
          /\ resources[k].type = "NatGateway"
          /\ resources[k].name = <<"nat-gw", i>>
          /\ resources[k].props.subnet_id = <<"public-subnet", i>>

\* C2 as stated: with NAT enabled, for every input, as many NAT gateways as
\* public subnets and every private route table i routed to NAT gateway i.
C2_Original ==
    (VpcDone /\ NatEnabled) =>
        /\ Len(OfType(resources, "NatGateway")) = Len(PublicSubnets)
        /\ \A i \in 0..(Len(PrivateRouteTables) - 1) : RoutedToNat(i)

\* C2, amended: with NAT enabled there are as many NAT gateways as public
\* subnets; private route table i has a default route to NAT gateway i when
\* i is below the number of NAT gateways and no route otherwise; when there
\* are as many private as public subnets every private route table is routed.
C2_NatPerPublicSubnet ==
    (VpcDone /\ NatEnabled) =>
        /\ Len(OfType(resources, "NatGateway")) = Len(PublicSubnets)
        /\ \A i \in 0..(Len(PrivateRouteTables) - 1) :
              IF i < Len(OfType(resources, "NatGateway"))
              THEN RoutedToNat(i)
              ELSE PrivateRoutesOf(i) = <<>>
        /\ Len(PrivateSubnets) <= Len(PublicSubnets) =>
              \A i \in 0..(Len(PrivateRouteTables) - 1) : RoutedToNat(i)

C2_Witness ==
    /\ VpcDone /\ NatEnabled
    /\ Len(PrivateRouteTables) = 3
    /\ Len(OfType(resources, "NatGateway")) = 3
    /\ RoutedToNat(2)

\* C3: with NAT disabled no NAT gateway and no elastic IP is created, there
\* is one private route table per private subnet, and no private route
\* table has a route.
C3_NoNatNoPrivateRoute ==
    (VpcDone /\ ~NatEnabled) =>
        /\ OfType(resources, "NatGateway") = <<>>
        /\ OfType(resources, "Eip") = <<>>
        /\ self.nat_gateways = <<>> /\ self.nat_eips = <<>>
        /\ Len(PrivateRouteTables) = Len(PrivateSubnets)
        /\ \A i \in 0..(Len(PrivateRouteTables) - 1) : PrivateRoutesOf(i) = <<>>
        /\ self.private_routes = <<>>

C3_Witness ==
    /\ VpcDone /\ ~NatEnabled
    /\ Len(PrivateSubnets) = 2 /\ Len(PrivateRouteTables) = 2

IsSubnetCidr(cidr, o1, o2, third) ==
    LET parts == Split(cidr, ".")
    IN  /\ Len(parts) = 4
        /\ parts[1] = o1 /\ parts[2] = o2
        /\ parts[3] # <<>>
        /\ \A k \in 1..Len(parts[3]) : \E d \in 0..9 : parts[3][k] = Digit(d)
        /\ ParseInt(parts[3]) = third
        /\ (Len(parts[3]) > 1 => parts[3][1] # "0")
        /\ parts[4] = <<"0", "/", "2", "4">>

\* the builder has just derived or taken over the subnet CIDRs, or is done
CidrsCalculated == cls = "VpcNetwork" /\ pc \in {"vpc_vpc", "done"}

\* C5: CIDRs not supplied: public subnet i is "{o1}.{o2}.{i}.0/24" and private
\* subnet i is "{o1}.{o2}.{i+10}.0/24", o1 and o2 the first two octets of the
\* VPC CIDR; 10.0.0.0/16 with 2 zones gives 10.0.0.0/24, 10.0.1.0/24 and
\* 10.0.10.0/24, 10.0.11.0/24; the subnets are created with these CIDRs.
C5_DerivedCidrs ==
    CidrsCalculated =>
        LET n == Len(locals.availability_zones)
            octets == Split(locals.cidr_block, ".")
            pub == locals.public_subnet_cidrs
            priv == locals.private_subnet_cidrs
            public == PublicSubnets
            private == PrivateSubnets
        IN  /\ Unsupplied("public_subnet_cidrs") =>
                /\ Len(pub) = n
                /\ \A i \in 0..(n - 1) :
                      IsSubnetCidr(pub[i + 1], octets[1], octets[2], i)
                /\ VpcDone => \A i \in 0..(n - 1) :
                      public[i + 1].props.cidr_block = pub[i + 1]
                /\ (~Has(args, "cidr_block") /\ n = 2) =>
                      pub = << <<"1", "0", ".", "0", ".", "0", ".", "0", "/", "2", "4">>,
                               <<"1", "0", ".", "0", ".", "1", ".", "0", "/", "2", "4">> >>
            /\ Unsupplied("private_subnet_cidrs") =>
                /\ Len(priv) = n
                /\ \A i \in 0..(n - 1) :
                      IsSubnetCidr(priv[i + 1], octets[1], octets[2], i + 10)
                /\ VpcDone => \A i \in 0..(n - 1) :
                      private[i + 1].props.cidr_block = priv[i + 1]
                /\ (~Has(args, "cidr_block") /\ n = 2) =>
                      priv = << <<"1", "0", ".", "0", ".", "1", "0", ".", "0", "/", "2", "4">>,
                                <<"1", "0", ".", "0", ".", "1", "1", ".", "0", "/", "2", "4">> >>

C5_Witness ==
    /\ VpcDone
    /\ Unsupplied("public_subnet_cidrs") /\ Unsupplied("private_subnet_cidrs")
    /\ ~Has(args, "cidr_block")
    /\ Len(locals.availability_zones) = 2
    /\ PrivateSubnets[2].props.cidr_block =
          <<"1", "0", ".", "0", ".", "1", "1", ".", "0", "/", "2", "4">>

\* the CIDRs of all the subnets created are pairwise distinct
SubnetCidrsDistinct ==
    LET subnets == OfType(resources, "Subnet")
    IN  \A j, k \in 1..Len(subnets) :
            j # k => subnets[j].props.cidr_block # subnets[k].props.cidr_block

BothDerived ==
    /\ cls = "VpcNetwork"
    /\ Unsupplied("public_subnet_cidrs") /\ Unsupplied("private_subnet_cidrs")

\* C6: with derived CIDRs the subnet CIDRs are pairwise distinct exactly when
\* there are at most 10 zones; beyond 10 zones public subnet i+10 has the
\* CIDR of private subnet i, and the builder raises nothing and runs on to
\* its end.
C6_CollisionBeyondTenZones ==
    BothDerived =>
        /\ raised = <<>>
        /\ (pc # "done" /\ Len(Get(args, "availability_zones", <<>>)) > 10)
              => ENABLED VpcNext
        /\ VpcDone =>
            LET n == Len(locals.availability_zones)
                public == PublicSubnets
                private == PrivateSubnets
            IN  /\ SubnetCidrsDistinct <=> n <= 10
                /\ \A i \in 0..(n - 11) :
                      public[i + 11].props.cidr_block
                          = private[i + 1].props.cidr_block

C6_Witness ==
    /\ BothDerived /\ VpcDone
    /\ Len(locals.availability_zones) = 11
    /\ PublicSubnets[11].props.cidr_block = PrivateSubnets[1].props.cidr_block
    /\ ~SubnetCidrsDistinct

(***************************************************************************)
(* Properties of SecurityGroup and its presets.                            *)
(***************************************************************************)
SgClasses == {"SecurityGroup", "WebSecurityGroup", "DatabaseSecurityGroup",
              "LoadBalancerSecurityGroup", "ApplicationSecurityGroup"}

SgDone == cls \in SgClasses /\ pc = "done"

\* the security group created
CreatedSg == OfType(resources, "SecurityGroup")[1].props

\* the created rule carries every field the caller's rule record sets
CarriesRule(created, rule) ==
    /\ \A key \in DOMAIN rule \ {"source_security_group_id"} :
          created[key] = rule[key]
    /\ (Has(rule, "source_security_group_id") /\ rule["source_security_group_id"] # NoResource)
          => created.security_groups = <<rule["source_security_group_id"]>>

\* C7: generic or preset, egress_rules absent or empty: the created group has
\* exactly one egress rule, protocol "-1", ports 0-0, CIDR 0.0.0.0/0; with a
\* non-empty egress_rules the created egress rules are the caller's rules in
\* order and no default is added.
C7_EgressDefault ==
    SgDone =>
        /\ Len(OfType(resources, "SecurityGroup")) = 1
        /\ IF Unsupplied("egress_rules")
           THEN /\ Len(CreatedSg.egress) = 1
                /\ CreatedSg.egress[1].protocol = "-1"
                /\ CreatedSg.egress[1].from_port = 0
                /\ CreatedSg.egress[1].to_port = 0
                /\ CreatedSg.egress[1].cidr_blocks = <<"0.0.0.0/0">>
                /\ CreatedSg.egress[1].ipv6_cidr_blocks = <<>>
                /\ "security_groups" \notin DOMAIN CreatedSg.egress[1]
           ELSE /\ Len(CreatedSg.egress) = Len(args["egress_rules"])
                /\ \A k \in 1..Len(CreatedSg.egress) :
                      /\ CarriesRule(CreatedSg.egress[k], args["egress_rules"][k])
                      /\ CreatedSg.egress[k].protocol # "-1"

C7_Witness ==
    /\ SgDone /\ cls = "WebSecurityGroup"
    /\ Has(args, "egress_rules") /\ args["egress_rules"] = <<>>
    /\ Len(CreatedSg.egress) = 1 /\ CreatedSg.egress[1].protocol = "-1"

DbDone == cls = "DatabaseSecurityGroup" /\ pc = "done"

\* the database_type the preset works with
DatabaseType == Get(args, "database_type", DefaultDatabaseType)

\* the port the claim gives a database_type: the table it states, 3306 for
\* every other string
ClaimedPort(t) ==
    CASE t = <<"m", "y", "s", "q", "l">> -> 3306 []
      t = <<"a", "u", "r", "o", "r", "a", "-", "m", "y", "s", "q", "l">> -> 3306 []
      t = <<"p", "o", "s", "t", "g", "r", "e", "s">> -> 5432 []
      t = <<"a", "u", "r", "o", "r", "a", "-", "p", "o", "s", "t", "g", "r", "e", "s">> -> 5432 []
      t = <<"r", "e", "d", "i", "s">> -> 6379 []
      t = <<"m", "o", "n", "g", "o", "d", "b">> -> 27017 []
      t = <<"m", "s", "s", "q", "l">> -> 1433 []
      t = <<"o", "r", "a", "c", "l", "e">> -> 1521 []
      OTHER -> 3306

\* C8 as stated: one ingress rule on the port of the stated table, 3306 for
\* every database_type that is not a name of that table.
C8_Original ==
    DbDone =>
        /\ Len(CreatedSg.ingress) = 1
        /\ CreatedSg.ingress[1].from_port = ClaimedPort(DatabaseType)
        /\ CreatedSg.ingress[1].to_port = ClaimedPort(DatabaseType)

\* the port of each database_type of the model: the table of the code, which
\* also holds postgresql, looked up without regard to case
AmendedPort(t) ==
    CASE t = <<"m", "y", "s", "q", "l">> -> 3306 []
      t = <<"a", "u", "r", "o", "r", "a", "-", "m", "y", "s", "q", "l">> -> 3306 []
      t = <<"p", "o", "s", "t", "g", "r", "e", "s">> -> 5432 []
      t = <<"a", "u", "r", "o", "r", "a", "-", "p", "o", "s", "t", "g", "r", "e", "s">> -> 5432 []
      t = <<"r", "e", "d", "i", "s">> -> 6379 []
      t = <<"m", "o", "n", "g", "o", "d", "b">> -> 27017 []
      t = <<"m", "s", "s", "q", "l">> -> 1433 []
      t = <<"o", "r", "a", "c", "l", "e">> -> 1521 []
      t = <<"p", "o", "s", "t", "g", "r", "e", "s", "q", "l">> -> 5432 []
      t = <<"P", "o", "s", "t", "g", "r", "e", "s">> -> 5432 []
      t = <<"R", "E", "D", "I", "S">> -> 6379 []
      OTHER -> 3306

\* C8, amended: one ingress rule with from_port = to_port = the port the table
\* gives the lower-cased database_type, the table holding postgresql (5432)
\* next to the names stated; 3306 for every other string, and the type never
\* raises an error: the only errors are a missing source and a missing vpc_id.
C8_DatabasePort ==
    cls = "DatabaseSecurityGroup" =>
        /\ pc = "done" =>
            /\ Len(CreatedSg.ingress) = 1
            /\ CreatedSg.ingress[1].protocol = "tcp"
            /\ CreatedSg.ingress[1].from_port = AmendedPort(DatabaseType)
            /\ CreatedSg.ingress[1].to_port = AmendedPort(DatabaseType)
        /\ raised \in {<<>>, <<"vpc_id is required">>,
                <<"Either source_security_group_id or source_cidr_blocks must be provided">>}
        /\ raised = <<"vpc_id is required">> => ~Has(args, "vpc_id")
        /\ raised = <<"Either source_security_group_id or source_cidr_blocks must be provided">>
              => /\ ~Has(args, "source_security_group_id")
                 /\ Get(args, "source_cidr_blocks", <<>>) = <<>>
        /\ (pc \notin {"done", "raised"} /\ AmendedPort(DatabaseType) = 3306)
              => ENABLED SecurityGroupNext

C8_Witness ==
    /\ DbDone
    /\ DatabaseType = <<"m", "a", "r", "i", "a", "d", "b">>
    /\ CreatedSg.ingress[1].from_port = 3306

(***************************************************************************)
(* Properties of ApplicationLoadBalancer.                                  *)
(***************************************************************************)
AlbCall == cls = "ApplicationLoadBalancer"

\* the listeners list of the call
CallerListeners == Get(args, "listeners", <<>>)

\* the configuration asks to forward and names no target group
ForwardWithoutTarget(listener_config) ==
    /\ Has(listener_config, "default_action")
    /\ listener_config["default_action"] # EmptyDict
    /\ Get(listener_config["default_action"], "type", "forward") = "forward"
    /\ ~Has(listener_config["default_action"], "target_group_arn")

\* the configuration is of an HTTPS listener without a certificate
HttpsWithoutCertificate(listener_config) ==
    /\ Get(listener_config, "protocol", "HTTP") = "HTTPS"
    /\ Get(listener_config, "certificate_arn", "") = ""

\* the error raised is a listener's, with this text
RaisedListenerError(text) ==
    raised # NoError /\ raised[1] = "Listener " /\ raised[Len(raised)] = text

\* C9: a listeners list with a forward action and no target_group_arn makes
\* the constructor raise, and when it raises for it no listener resource has
\* been created, the listeners earlier in the list included.
C9_NoListenerBeforeForwardRaise ==
    AlbCall =>
        /\ pc = "done" =>
              \A k \in 1..Len(CallerListeners) :
                  ~ForwardWithoutTarget(CallerListeners[k])
        /\ RaisedListenerError("target_group_arn required for forward action")
              => OfType(resources, "Listener") = <<>>

\* C10: an HTTPS listener without certificate_arn makes the constructor raise
\* with no listener created; an HTTP listener is created without a
\* certificate and gets neither certificate_arn nor ssl_policy.
C10_NoListenerBeforeCertificateRaise ==
    AlbCall =>
        /\ pc = "done" =>
              \A k \in 1..Len(CallerListeners) :
                  ~HttpsWithoutCertificate(CallerListeners[k])
        /\ RaisedListenerError("certificate_arn required for HTTPS protocol")
              => OfType(resources, "Listener") = <<>>
        /\ \A k \in 1..Len(OfType(resources, "Listener")) :
              OfType(resources, "Listener")[k].props.protocol = "HTTP"
                  => /\ ~Has(OfType(resources, "Listener")[k].props, "certificate_arn")
                     /\ ~Has(OfType(resources, "Listener")[k].props, "ssl_policy")

\* C11: whenever a builder raises a validation error, no resource has been
\* registered by that call before the raise; in particular a listener
\* validation failure of ApplicationLoadBalancer comes before the load
\* balancer itself is created.
C11_NoResourceBeforeRaise ==
    raised # NoError => resources = <<>>

\* the action of a listener configuration, and its type
ActionOf(listener_config) == Get(listener_config, "default_action", EmptyDict)

ActionType(listener_config) == Get(ActionOf(listener_config), "type", "forward")

\* a redirect action without a redirect destination configuration
RedirectWithoutDestination(listener_config) ==
    /\ ActionOf(listener_config) # EmptyDict
    /\ ActionType(listener_config) = "redirect"
    /\ Get(ActionOf(listener_config), "redirect", EmptyDict) = EmptyDict

\* a fixed-response action without a fixed response body
FixedResponseWithoutBody(listener_config) ==
    /\ ActionOf(listener_config) # EmptyDict
    /\ ActionType(listener_config) = "fixed-response"
    /\ ~Has(Get(ActionOf(listener_config), "fixed_response", EmptyDict),
            "message_body")

\* the listener resources created so far, in creation order
CreatedListeners == OfType(resources, "Listener")

\* the required parameters of the load balancer are all given
AlbRequiredGiven ==
    /\ Len(Get(args, "subnet_ids", <<>>)) >= 2
    /\ Get(args, "security_group_ids", <<>>) # <<>>
    /\ CallerListeners # <<>>

\* C12 as stated: a redirect action without a redirect configuration and a
\* fixed-response action without a body each make the constructor raise, as
\* forward without a target group does.
C12_Original ==
    AlbCall /\ pc = "done" =>
        \A k \in 1..Len(CallerListeners) :
            /\ ~ForwardWithoutTarget(CallerListeners[k])
            /\ ~RedirectWithoutDestination(CallerListeners[k])
            /\ ~FixedResponseWithoutBody(CallerListeners[k])

\* what a listener configuration lacks when the loop raises for it
LacksMandatoryField(listener_config) ==
    \/ Get(listener_config, "port", 0) = 0
    \/ ActionOf(listener_config) = EmptyDict
    \/ /\ ActionType(listener_config) = "forward"
       /\ Get(ActionOf(listener_config), "target_group_arn", NoResource) = NoResource
    \/ HttpsWithoutCertificate(listener_config)

\* C12 (amended): only the forward arm validates a sub-field. Forward without
\* a target group raises; a redirect action without a redirect configuration
\* does not raise and its listener redirects to HTTPS, port 443, HTTP_301,
\* same host, path and query; a fixed-response action without a body does not
\* raise and its listener answers "OK" (text/plain, status 200 when the whole
\* configuration is absent).
C12_OnlyForwardValidates ==
    AlbCall =>
        /\ pc = "done" =>
              \A k \in 1..Len(CallerListeners) :
                  ~ForwardWithoutTarget(CallerListeners[k])
        /\ pc = "raised" /\ AlbRequiredGiven =>
              LacksMandatoryField(CallerListeners[Len(CreatedListeners) + 1])
        /\ pc = "done" => Len(CreatedListeners) = Len(CallerListeners)
        /\ \A k \in 1..Len(CreatedListeners) :
              LET action == CreatedListeners[k].props.default_actions[1]
              IN  /\ RedirectWithoutDestination(CallerListeners[k]) =>
                        action = [type |-> "redirect",
                                  redirect |-> [protocol |-> "HTTPS",
                                                port |-> "443",
                                                status_code |-> "HTTP_301",
                                                host |-> "#{host}",
                                                path |-> "/#{path}",
                                                query |-> "#{query}"]]
                  /\ FixedResponseWithoutBody(CallerListeners[k]) =>
                        /\ action.type = "fixed-response"
                        /\ action.fixed_response.message_body = "OK"
                        /\ ~Has(ActionOf(CallerListeners[k]), "fixed_response") =>
                              action.fixed_response =
                                  [content_type |-> "text/plain",
                                   message_body |-> "OK",
                                   status_code |-> "200"]

\* a constructor that returned with a listener of each default-filled arm
C12_Witness ==
    /\ AlbCall /\ pc = "done"
    /\ Len(CallerListeners) = 2
    /\ RedirectWithoutDestination(CallerListeners[1])
    /\ FixedResponseWithoutBody(CallerListeners[2])
    /\ Len(CreatedListeners) = 2

\* the action types the listener loop has an arm for
SupportedActionTypes == {"forward", "redirect", "fixed-response"}

\* C13: a listener whose default_action type is none of forward, redirect,
\* fixed-response makes the constructor raise, and no listener is created
\* for it.
C13_UnsupportedActionRaises ==
    AlbCall =>
        /\ pc = "done" =>
              \A k \in 1..Len(CallerListeners) :
                  ActionType(CallerListeners[k]) \in SupportedActionTypes
        /\ \A k \in 1..Len(CreatedListeners) :
              CreatedListeners[k].props.default_actions[1].type
                  \in SupportedActionTypes

\* the rule record names a peer security group and CIDR blocks
BothSources(rule) ==
    /\ Get(rule, "source_security_group_id", NoResource) # NoResource
    /\ Get(rule, "cidr_blocks", <<>>) # <<>>

\* the call of a Database or Application preset names a peer security group
\* and CIDR blocks
PresetBothSources ==
    /\ cls \in {"DatabaseSecurityGroup", "ApplicationSecurityGroup"}
    /\ Get(args, "source_security_group_id", NoResource) # NoResource
    /\ Get(args, "source_cidr_blocks", <<>>) # <<>>

\* the produced rule has the peer security group as its only source
PeerOnly(created, peer) ==
    /\ Get(created, "security_groups", <<>>) = <<peer>>
    /\ created.cidr_blocks = <<>>

\* the rule lists a caller of the generic builder passed, as created
GenericRulePairs ==
    LET ingress == Get(args, "ingress_rules", <<>>)
        egress == Get(args, "egress_rules", <<>>)
    IN  {<<ingress[k], CreatedSg.ingress[k]>> : k \in 1..Len(ingress)}
        \cup {<<egress[k], CreatedSg.egress[k]>> : k \in 1..Len(egress)}

\* the raise is none a rule's source causes
RaisedForOtherField ==
    raised \in {<<"vpc_id is required">>, <<"app_port is required">>}

\* C15 as stated: with both a peer security group and CIDR blocks the builder
\* does not raise and the produced rule has the peer as its only source, the
\* CIDR blocks not carried; for the generic rule builder and for the Database
\* and Application presets.
C15_Original ==
    /\ cls = "SecurityGroup" /\ pc = "done" =>
          \A pair \in GenericRulePairs :
              BothSources(pair[1]) =>
                  PeerOnly(pair[2], pair[1]["source_security_group_id"])
    /\ PresetBothSources =>
          /\ pc = "raised" => RaisedForOtherField
          /\ pc = "done" =>
                PeerOnly(CreatedSg.ingress[1], args["source_security_group_id"])

\* C15 (amended): with both a peer security group and CIDR blocks no builder
\* raises. The Database and Application presets give the peer priority: the
\* produced rule has the peer as its only source and no CIDR block. The
\* generic rule builder carries both: the produced rule has the peer in
\* security_groups and the caller's CIDR blocks in cidr_blocks.
C15_PeerPriorityInPresetsOnly ==
    /\ cls = "SecurityGroup" =>
          /\ pc = "raised" => RaisedForOtherField
          /\ pc = "done" =>
                \A pair \in GenericRulePairs :
                    BothSources(pair[1]) =>
                        /\ pair[2].security_groups =
                              <<pair[1]["source_security_group_id"]>>
                        /\ pair[2].cidr_blocks = pair[1]["cidr_blocks"]
    /\ PresetBothSources =>
          /\ pc = "raised" => RaisedForOtherField
          /\ pc = "done" =>
                PeerOnly(CreatedSg.ingress[1], args["source_security_group_id"])

\* a generic call with a rule of both sources, or a preset call with both
\* sources, returned
C15_Witness ==
    /\ pc = "done"
    /\ \/ /\ cls = "SecurityGroup"
          /\ \E pair \in GenericRulePairs : BothSources(pair[1])
       \/ /\ PresetBothSources
          /\ Len(CreatedSg.ingress) = 2

(***************************************************************************)
(* Properties of Ec2Instance.                                              *)
(***************************************************************************)
Ec2Call == cls = "Ec2Instance"

\* the caller's security_group_ids and vpc_id, as the constructor reads them
CallerGroupIds == Get(args, "security_group_ids", <<>>)

CallerVpcId == Get(args, "vpc_id", NoResource)

\* the instance created
CreatedInstance == OfType(resources, "Instance")[1].props

\* C18: with security_group_ids and vpc_id both absent the constructor
\* raises; with security_group_ids empty and vpc_id given it creates exactly
\* one fallback security group whose only ingress rule is TCP 22 from
\* 0.0.0.0/0 and attaches exactly that group to the instance; with
\* security_group_ids non-empty it creates no fallback group and the instance
\* gets exactly the caller's groups.
C18_Ec2SecurityGroups ==
    Ec2Call =>
        /\ CallerGroupIds = <<>> /\ CallerVpcId = NoResource =>
              /\ pc \in {"start", "ec2_validate", "raised"}
              /\ resources = <<>>
        /\ pc = "raised" =>
              /\ CallerGroupIds = <<>> /\ CallerVpcId = NoResource
              /\ raised = <<"Either security_group_ids or vpc_id must be provided">>
        /\ pc = "done" /\ CallerGroupIds = <<>> =>
              LET groups == OfType(resources, "SecurityGroup")
              IN  /\ Len(groups) = 1
                  /\ Len(groups[1].props.ingress) = 1
                  /\ groups[1].props.ingress[1].protocol = "tcp"
                  /\ groups[1].props.ingress[1].from_port = 22
                  /\ groups[1].props.ingress[1].to_port = 22
                  /\ groups[1].props.ingress[1].cidr_blocks = <<"0.0.0.0/0">>
                  /\ groups[1].props.vpc_id = CallerVpcId
                  /\ Len(OfType(resources, "Instance")) = 1
                  /\ CreatedInstance.vpc_security_group_ids = <<groups[1].name>>
        /\ pc = "done" /\ CallerGroupIds # <<>> =>
              /\ OfType(resources, "SecurityGroup") = <<>>
              /\ Len(OfType(resources, "Instance")) = 1
              /\ CreatedInstance.vpc_security_group_ids = CallerGroupIds

\* an instance created behind the fallback group
C18_Witness ==
    /\ Ec2Call /\ pc = "done"
    /\ CallerGroupIds = <<>> /\ CallerVpcId = <<"vpc-1">>
    /\ Len(OfType(resources, "SecurityGroup")) = 1

(***************************************************************************)
(* Properties of AutoScalingGroup.                                         *)
(***************************************************************************)
AsgCall == cls = "AutoScalingGroup"

\* the group submitted to the provider
CreatedAsg == OfType(resources, "AutoScalingGroup")[1].props

AsgCreated == AsgCall /\ OfType(resources, "AutoScalingGroup") # <<>>

\* C17: with desired_capacity not specified the desired capacity sent to the
\* provider equals min_size (1 when min_size is not specified either), and
\* every entry of a non-empty tags mapping becomes one tag of the group with
\* propagate_at_launch true.
C17_DesiredDefaultAndTags ==
    AsgCreated =>
        /\ ~Has(args, "desired_capacity") =>
              /\ CreatedAsg.desired_capacity = CreatedAsg.min_size
              /\ Has(args, "min_size") => CreatedAsg.desired_capacity = args["min_size"]
              /\ ~Has(args, "min_size") => CreatedAsg.desired_capacity = 1
        /\ Get(args, "tags", EmptyDict) # EmptyDict =>
              /\ Cardinality(CreatedAsg.tags) = Cardinality(DOMAIN args["tags"])
              /\ \A key \in DOMAIN args["tags"] :
                    [key |-> key, value |-> args["tags"][key],
                     propagate_at_launch |-> TRUE] \in CreatedAsg.tags
              /\ \A tag \in CreatedAsg.tags : tag.propagate_at_launch

\* a group created from defaults of min_size 2 and two tags
C17_Witness ==
    /\ AsgCreated /\ pc = "done"
    /\ ~Has(args, "desired_capacity")
    /\ Get(args, "min_size", 1) = 2
    /\ CreatedAsg.desired_capacity = 2
    /\ Cardinality(DOMAIN Get(args, "tags", EmptyDict)) = 2


(***************************************************************************)
(* Properties of the compositions.                                         *)
(***************************************************************************)
\* create_common_security_groups has returned its four groups
CommonGroupsReturned ==
    script.name = "create_common_security_groups" /\ script.pc = "end"

\* what the engine holds of the security group of a tier
TierGroup(tier) ==
    LET id == Id(script.vars.result[tier], "security_group")
    IN  SelectSeq(script.registered,
                  LAMBDA r : r.type = "SecurityGroup" /\ r.name = id)[1].props

\* the ingress rules of a tier that are not its SSH rule
NonSshIngress(tier) ==
    SelectSeq(TierGroup(tier).ingress, LAMBDA rule : rule.from_port # 22)

\* every non-SSH ingress rule of the tier comes from the previous tier's
\* security group and from no CIDR block
SourcedFrom(tier, previous) ==
    \A k \in 1..Len(NonSshIngress(tier)) :
        LET rule == NonSshIngress(tier)[k]
        IN  /\ Has(rule, "security_groups")
            /\ rule["security_groups"]
                  = <<Id(script.vars.result[previous], "security_group")>>
            /\ rule.cidr_blocks = <<>>

\* C14: in the groups create_common_security_groups returns, every non-SSH
\* ingress rule of web comes from the alb group, of app from the web group,
\* of db from the app group, and none from a CIDR block.
C14_TierChain ==
    CommonGroupsReturned =>
        /\ SourcedFrom("web", "alb")
        /\ SourcedFrom("app", "web")
        /\ SourcedFrom("db", "app")

\* the part of the chain the code builds: app from web, db from app
AppAndDbTiersChained ==
    CommonGroupsReturned =>
        /\ SourcedFrom("app", "web") /\ NonSshIngress("app") # <<>>
        /\ SourcedFrom("db", "app") /\ NonSshIngress("db") # <<>>


\* the deploy-asg program is running
WstRuns == script.name = "tech-branch-wst"

\* the ec2 configuration object the deploy-asg program reads
WstEc2Config == Get(script.config, "ec2", EmptyDict)

\* the size under a key of a configuration object, or the default
SizeOr(config, key, default) ==
    IF key \in DOMAIN config THEN ParseInt(config[key]) ELSE default

\* the sizes of a group are in order
Ordered(min_size, desired_capacity, max_size) ==
    min_size <= desired_capacity /\ desired_capacity <= max_size

\* C16 as stated: every group submitted to the provider, by AutoScalingGroup
\* alone or from the deploy-asg program, has min_size <= desired_capacity <=
\* max_size.
C16_Original ==
    AsgCreated =>
        Ordered(CreatedAsg.min_size, CreatedAsg.desired_capacity,
                CreatedAsg.max_size)

\* C16: AutoScalingGroup submits min_size (default 1), max_size (default 3)
\* and desired_capacity (default min_size) as its caller gave them, and the
\* deploy-asg program gives it int(minSize) (default 2), int(maxSize)
\* (default 4) and int(desiredCapacity) (default 2); no order is enforced,
\* and with the three configuration values unset the sizes are in order.
C16_SizesAsGiven ==
    /\ AsgCreated =>
          LET min_size == IF "min_size" \in DOMAIN args THEN args["min_size"] ELSE 1
          IN  /\ raised = NoError
              /\ CreatedAsg.min_size = min_size
              /\ CreatedAsg.max_size
                    = IF "max_size" \in DOMAIN args THEN args["max_size"] ELSE 3
              /\ CreatedAsg.desired_capacity
                    = IF "desired_capacity" \in DOMAIN args
                      THEN args["desired_capacity"] ELSE min_size
    /\ (WstRuns /\ AsgCreated) =>
          /\ CreatedAsg.min_size = SizeOr(WstEc2Config, "minSize", 2)
          /\ CreatedAsg.max_size = SizeOr(WstEc2Config, "maxSize", 4)
          /\ CreatedAsg.desired_capacity = SizeOr(WstEc2Config, "desiredCapacity", 2)
    /\ (WstRuns /\ AsgCreated
        /\ DOMAIN WstEc2Config \cap {"minSize", "maxSize", "desiredCapacity"} = {}) =>
          Ordered(CreatedAsg.min_size, CreatedAsg.desired_capacity,
                  CreatedAsg.max_size)

\* the deploy-asg program with minSize 3 alone submits sizes (3, 2, 4)
C16_Witness ==
    /\ WstRuns /\ AsgCreated
    /\ DOMAIN WstEc2Config = {"minSize"}
    /\ CreatedAsg.min_size = 3
    /\ CreatedAsg.desired_capacity = 2
    /\ CreatedAsg.max_size = 4


\* a top-level program runs with every optional configuration value unset
RunsUnconfigured ==
    /\ script.name \in {"tech-Branch", "tech-branch-wst"}
    /\ script.config = EmptyDict

\* the program stopped on a value that is None because it is unset
FailedOnUnsetValue == raised = ConcatenationError(<<None>>)

\* C19: with every optional configuration value (branch, env, instanceType,
\* keyName, the vpc and ec2 objects) unset, no top-level program fails on
\* the absence of a value.
C19_UnsetConfigNeverFails == RunsUnconfigured => ~FailedOnUnsetValue

\* the deploy-asg program never stops on an unset value
DeployAsgToleratesUnset == WstRuns => ~FailedOnUnsetValue

\* the deploy-asg program, unconfigured, has run to its exports
DeployAsgCompletesUnconfigured ==
    /\ RunsUnconfigured /\ WstRuns
    /\ script.pc = "end"
    /\ Len(OfType(script.registered, "AutoScalingGroup")) = 1

\* C20: no constructor changes the args dictionary or the tags mapping its
\* caller passed in: from the call to the return or the raise, every step of
\* the constructor leaves them as they were.
C20_CallerArgsUnchanged == [][pc # "script" => args' = args]_vars


\* C21: in the deploy-asg program the vpc_zone_identifiers passed to the
\* Auto Scaling Group are exactly the ids of network.public_subnets.
C21_AsgInPublicSubnets ==
    (WstRuns /\ AsgCall) =>
        args["vpc_zone_identifiers"] = Ids(script.vars.network, "public_subnets")


\* the resources of rs that go by a name
Named(rs, name) == {j \in 1..Len(rs) : rs[j].name = name}

\* the end of the chain of parents that starts at parent, followed through
\* at most fuel resources
RECURSIVE RootOf(_, _, _)
RootOf(rs, parent, fuel) ==
    IF fuel = 0 \/ Named(rs, parent) = {} THEN parent
    ELSE RootOf(rs, rs[CHOOSE j \in Named(rs, parent) : TRUE].parent, fuel - 1)

\* every resource of rs has for parent the root or one resource registered
\* before it, so that rs is a tree under the root
TreeUnder(rs, root) ==
    \A k \in 1..Len(rs) :
        \/ /\ rs[k].parent = root
           /\ Named(rs, root) = {}
        \/ /\ Cardinality(Named(rs, rs[k].parent)) = 1
           /\ \E j \in 1..(k - 1) : rs[j].name = rs[k].parent

\* the names of the components a composition has constructed
ComponentNames ==
    {script.vars[v].name :
        v \in DOMAIN script.vars
              \cap {"alb_sg", "web_sg", "app_sg", "db_sg", "network", "internal_sg",
                    "web_server", "content_bucket", "ec2_instance_profile",
                    "s3_endpoint", "web_launch_template", "web_target_group",
                    "web_alb", "web_asg"}}

\* a sequence starts with another
StartsWith(s, prefix) ==
    Len(prefix) <= Len(s) /\ SubSeq(s, 1, Len(prefix)) = prefix

\* C22: every resource has one parent, the component or a resource the same
\* component created before it, so the resources of a component are a tree
\* under it; in a composition every resource descends from the component
\* that created it (the one its name starts with) and from no other.
C22_ParentTree ==
    /\ TreeUnder(resources, Component)
    /\ \A k \in 1..Len(resources) :
          RootOf(resources, resources[k].parent, Len(resources)) = Component
    /\ pc = "script" =>
          \A k \in 1..Len(script.registered) :
              LET r == script.registered[k]
                  root == RootOf(script.registered, r.parent, Len(script.registered))
              IN  /\ root \in ComponentNames
                  /\ StartsWith(r.name, root)
                  /\ \/ /\ r.parent = root
                        /\ Named(script.registered, root) = {}
                     \/ /\ Cardinality(Named(script.registered, r.parent)) = 1
                        /\ \E j \in 1..(k - 1) :
                              script.registered[j].name = r.parent
                  /\ \A c \in ComponentNames : StartsWith(r.name, c) => c = root

\* the deploy-asg program has constructed its components, the network with
\* NAT gateways under its public subnets and the policy under the role
C22_Witness ==
    /\ WstRuns /\ script.pc = "end"
    /\ Cardinality(ComponentNames) = 10
    /\ \E k \in 1..Len(script.registered) :
          /\ script.registered[k].type = "NatGateway"
          /\ script.registered[k].parent
                = script.vars.network.name \o <<"public-subnet", 0>>
    /\ \E k \in 1..Len(script.registered) :
          /\ script.registered[k].type = "RolePolicy"
          /\ script.registered[k].parent
                = script.vars.ec2_instance_profile.name \o <<"role">>


\* the route table associations of a subnet, and those to a route table
AssociationsOf(subnet) ==
    SelectSeq(resources, LAMBDA r :
        r.type = "RouteTableAssociation" /\ r.props.subnet_id = subnet)

AssociationsTo(table) ==
    SelectSeq(resources, LAMBDA r :
        r.type = "RouteTableAssociation" /\ r.props.route_table_id = table)

\* the route tables that are not a private subnet's, and their routes
PublicRouteTables == SelectSeq(resources,
    LAMBDA r : r.type = "RouteTable" /\ r.name = <<"public-rt">>)

PublicRoutes == SelectSeq(resources,
    LAMBDA r : r.type = "Route" /\ r.props.route_table_id = <<"public-rt">>)

\* C23: a VpcNetwork has exactly one public route table, with exactly one
\* route, the default route 0.0.0.0/0 to the internet gateway; every public
\* subnet has exactly one association, to that table; private subnet i has
\* exactly one association, to private route table i, which is associated
\* with no other subnet.
C23_RouteTables ==
    VpcDone =>
        /\ Len(PublicRouteTables) = 1
        /\ Len(OfType(resources, "RouteTable")) = 1 + Len(PrivateSubnets)
        /\ Len(PublicRoutes) = 1
        /\ PublicRoutes[1].props.destination_cidr_block = "0.0.0.0/0"
        /\ Len(OfType(resources, "InternetGateway")) = 1
        /\ PublicRoutes[1].props.gateway_id
              = OfType(resources, "InternetGateway")[1].name
        /\ \A k \in 1..Len(PublicSubnets) :
              /\ Len(AssociationsOf(PublicSubnets[k].name)) = 1
              /\ AssociationsOf(PublicSubnets[k].name)[1].props.route_table_id
                    = PublicRouteTables[1].name
        /\ Len(PrivateRouteTables) = Len(PrivateSubnets)
        /\ \A k \in 1..Len(PrivateSubnets) :
              /\ Len(AssociationsOf(PrivateSubnets[k].name)) = 1
              /\ AssociationsOf(PrivateSubnets[k].name)[1].props.route_table_id
                    = PrivateRouteTables[k].name
              /\ PrivateRouteTables[k].name = <<"private-rt", k - 1>>
              /\ Len(AssociationsTo(PrivateRouteTables[k].name)) = 1

\* a network of two public and two private subnets, all associated
C23_Witness ==
    /\ VpcDone
    /\ Len(PublicSubnets) = 2 /\ Len(PrivateSubnets) = 2
    /\ Len(AssociationsTo(<<"public-rt">>)) = 2
    /\ Len(AssociationsTo(<<"private-rt", 1>>)) = 1


\* the default the rule builder gives a missing field
RuleDefault(key) ==
    CASE key = "protocol" -> "tcp" []
         key = "from_port" -> 0 []
         key = "to_port" -> 0 []
         key = "cidr_blocks" -> <<>> []
         key = "ipv6_cidr_blocks" -> <<>> []
         key = "description" -> <<>>

\* the created rule is the canonical shape of the rule record
Canonical(created, rule) ==
    /\ \A key \in {"protocol", "from_port", "to_port", "cidr_blocks",
                   "ipv6_cidr_blocks", "description"} :
          created[key] = IF key \in DOMAIN rule THEN rule[key] ELSE RuleDefault(key)
    /\ "security_groups" \in DOMAIN created =>
          /\ "source_security_group_id" \in DOMAIN rule
          /\ created["security_groups"] = <<rule["source_security_group_id"]>>
    /\ DOMAIN created \subseteq {"protocol", "from_port", "to_port", "cidr_blocks",
                                "ipv6_cidr_blocks", "description", "security_groups"}

GenericSgDone == cls = "SecurityGroup" /\ pc = "done"

\* C24: the generic rule builder gives every rule record the canonical
\* shape: a missing field takes its default (protocol tcp, from_port 0,
\* to_port 0, no CIDR block, empty description), there is no peer group list
\* unless source_security_group_id is present, and a field the caller
\* supplied is passed through unchanged.
C24_CanonicalRules ==
    GenericSgDone =>
        LET ingress_rules == Get(args, "ingress_rules", <<>>)
        IN  /\ Len(CreatedSg.ingress) = Len(ingress_rules)
            /\ \A k \in 1..Len(ingress_rules) :
                  Canonical(CreatedSg.ingress[k], ingress_rules[k])
            /\ ~Unsupplied("egress_rules") =>
                  /\ Len(CreatedSg.egress) = Len(args["egress_rules"])
                  /\ \A k \in 1..Len(args["egress_rules"]) :
                        Canonical(CreatedSg.egress[k], args["egress_rules"][k])

\* a group built from the empty rule record and from a rule with a peer
C24_Witness ==
    /\ GenericSgDone
    /\ Has(args, "ingress_rules") /\ Len(args["ingress_rules"]) >= 1
    /\ args["ingress_rules"][1] = EmptyDict
    /\ CreatedSg.ingress[1].protocol = "tcp"
    /\ CreatedSg.ingress[1].to_port = 0
    /\ Has(args, "egress_rules") /\ Len(args["egress_rules"]) >= 1
    /\ Has(CreatedSg.egress[1], "security_groups")


LbCall == cls = "LoadBalancerSecurityGroup"

\* the caller asks for an internal load balancer and names no CIDR block
InternalWithoutCidrs ==
    LbCall /\ Get(args, "internal", FALSE) /\ Unsupplied("cidr_blocks")

\* C25: the Load-Balancer preset produces exactly two ingress rules, TCP 80
\* and TCP 443, both restricted to the caller's cidr_blocks, to 0.0.0.0/0
\* when internal is false and cidr_blocks is absent; with internal true and
\* cidr_blocks absent or empty it raises before any security group is
\* created.
C25_LoadBalancerPreset ==
    /\ (LbCall /\ pc = "done") =>
          LET cidr_blocks == IF Has(args, "cidr_blocks") THEN args["cidr_blocks"]
                             ELSE <<"0.0.0.0/0">>
          IN  /\ Len(CreatedSg.ingress) = 2
              /\ \A k \in 1..2 :
                    /\ CreatedSg.ingress[k].protocol = "tcp"
                    /\ CreatedSg.ingress[k].cidr_blocks = cidr_blocks
                    /\ "security_groups" \notin DOMAIN CreatedSg.ingress[k]
              /\ CreatedSg.ingress[1].from_port = 80
              /\ CreatedSg.ingress[1].to_port = 80
              /\ CreatedSg.ingress[2].from_port = 443
              /\ CreatedSg.ingress[2].to_port = 443
              /\ ~InternalWithoutCidrs
    /\ InternalWithoutCidrs =>
          /\ resources = <<>>
          /\ pc \in {"start", "raised"}
          /\ pc = "raised" =>
                raised = <<"cidr_blocks must be provided for internal load balancers">>

\* an internal load balancer group restricted to the caller's block
C25_Witness ==
    /\ LbCall /\ pc = "done"
    /\ Get(args, "internal", FALSE)
    /\ CreatedSg.ingress[1].cidr_blocks = <<"10.0.0.0/8">>
    /\ CreatedSg.ingress[2].cidr_blocks = <<"10.0.0.0/8">>

\* an internal load balancer group without CIDR blocks was refused
InternalRefused == InternalWithoutCidrs /\ pc = "raised"


\* the first listener configuration of the call that lacks its port or its
\* default action, no earlier one raising: its place in the list, 0 if none
FirstIncomplete ==
    LET faulty == {k \in 1..Len(CallerListeners) :
                      LacksMandatoryField(CallerListeners[k])}
        first == CHOOSE k \in faulty : \A j \in faulty : k <= j
    IN  IF faulty = {} THEN 0
        ELSE IF \/ Get(CallerListeners[first], "port", 0) = 0
                \/ ActionOf(CallerListeners[first]) = EmptyDict
        THEN first
        ELSE 0

\* some listener configuration lacks its port or its default action
SomeIncomplete ==
    \E k \in 1..Len(CallerListeners) :
        \/ Get(CallerListeners[k], "port", 0) = 0
        \/ ActionOf(CallerListeners[k]) = EmptyDict

\* C26: with fewer than 2 subnet_ids, no security_group_ids or no listeners
\* the constructor raises and the load balancer has not been created; a
\* listener without port or without default_action makes it raise, with
\* "Listener i: port must be provided" or "Listener i: default_action must
\* be provided".
C26_AlbValidation ==
    AlbCall =>
        /\ ~AlbRequiredGiven =>
              /\ pc # "done"
              /\ OfType(resources, "LoadBalancer") = <<>>
              /\ pc = "raised" =>
                    raised =
                      IF Len(Get(args, "subnet_ids", <<>>)) < 2
                      THEN <<"At least 2 subnet_ids must be provided in different AZs">>
                      ELSE IF Get(args, "security_group_ids", <<>>) = <<>>
                      THEN <<"security_group_ids must be provided">>
                      ELSE <<"At least one listener configuration must be provided">>
        /\ (AlbRequiredGiven /\ SomeIncomplete) => pc # "done"
        /\ (AlbRequiredGiven /\ FirstIncomplete # 0 /\ pc = "raised") =>
              /\ raised[1] = "Listener "
              /\ SubSeq(raised, 2, Len(raised) - 2) = Str(FirstIncomplete - 1)
              /\ raised[Len(raised)] =
                    IF Get(CallerListeners[FirstIncomplete], "port", 0) = 0
                    THEN "port must be provided"
                    ELSE "default_action must be provided"

\* the second listener has no port: the constructor raised for it after the
\* load balancer and the first listener
C26_Witness ==
    /\ AlbCall /\ AlbRequiredGiven /\ pc = "raised"
    /\ FirstIncomplete = 2
    /\ ~Has(CallerListeners[2], "port")
    /\ Len(OfType(resources, "LoadBalancer")) = 1
    /\ raised[Len(raised)] = "port must be provided"

\* a call with one subnet was refused
OneSubnetRefused ==
    /\ AlbCall /\ pc = "raised"
    /\ Len(Get(args, "subnet_ids", <<>>)) = 1
    /\ resources = <<>>


\* a listener with an empty default_action was refused
EmptyActionRefused ==
    /\ AlbCall /\ AlbRequiredGiven /\ pc = "raised"
    /\ FirstIncomplete = 1
    /\ Has(CallerListeners[1], "default_action")
    /\ raised[Len(raised)] = "default_action must be provided"

CidrKeys == {"public_subnet_cidrs", "private_subnet_cidrs"}

\* the subnets made from the list under key
SubnetsOf(key) ==
    IF key = "public_subnet_cidrs" THEN PublicSubnets ELSE PrivateSubnets

\* the caller's list under key is not as long as the zone list
Differs(key) ==
    Has(args, key) /\ Len(args[key]) # Len(locals.availability_zones)

\* the default routes of the private route tables
PrivateDefaultRoutes == SelectSeq(resources,
    LAMBDA r : /\ r.type = "Route"
               /\ r.props.route_table_id # <<"public-rt">>
               /\ r.props.destination_cidr_block = "0.0.0.0/0")

\* what a mismatched list leads to: no error, as many subnets of the kind
\* as the shorter of list and zone list, and with NAT min(private subnets,
\* NAT gateways) private default routes, none for a table whose index is
\* not below the number of NAT gateways
Truncated(key) ==
    /\ raised = NoError
    /\ Len(SubnetsOf(key)) = Min(Len(args[key]), Len(locals.availability_zones))
    /\ NatEnabled =>
          /\ Len(PrivateDefaultRoutes) =
                Min(Len(PrivateSubnets), Len(OfType(resources, "NatGateway")))
          /\ \A i \in 0..(Len(PrivateRouteTables) - 1) :
                i >= Len(OfType(resources, "NatGateway")) =>
                    PrivateRoutesOf(i) = <<>>

\* C27 as stated: every list whose length differs from the number of zones,
\* the empty list included, is truncated against the zone list.
C27_Original ==
    VpcDone => \A key \in CidrKeys : Differs(key) => Truncated(key)

\* C27, amended: a non-empty public_subnet_cidrs or private_subnet_cidrs
\* list whose length differs from the number of availability zones raises no
\* error; the subnets of that kind number the minimum of the two lengths, and
\* with NAT enabled the private default routes number min(private subnets,
\* NAT gateways), private route tables with index >= the number of NAT
\* gateways having no default route.  (An empty list is replaced by one
\* derived CIDR per zone.)
C27_MismatchedListTruncates ==
    /\ cls = "VpcNetwork" => raised = NoError /\ pc # "raised"
    /\ VpcDone =>
          \A key \in CidrKeys :
              (Differs(key) /\ ~Unsupplied(key)) => Truncated(key)

\* one public CIDR for two zones, NAT enabled: one public subnet, one NAT
\* gateway, two private subnets, the second private route table unrouted
C27_Witness ==
    /\ VpcDone /\ NatEnabled
    /\ Differs("public_subnet_cidrs")
    /\ Len(args["public_subnet_cidrs"]) = 1
    /\ Len(locals.availability_zones) = 2
    /\ Len(PublicSubnets) = 1
    /\ Len(PrivateSubnets) = 2
    /\ Len(PrivateDefaultRoutes) = 1
    /\ PrivateRoutesOf(1) = <<>>

\* two private CIDRs for one zone: one private subnet
LongListTruncated ==
    /\ VpcDone
    /\ Has(args, "private_subnet_cidrs")
    /\ Len(args["private_subnet_cidrs"]) = 2
    /\ Len(locals.availability_zones) = 1
    /\ Len(PrivateSubnets) = 1

\* C28: the resources one ApplicationLoadBalancer call registers have
\* pairwise distinct names, whatever listeners list it accepts.
C28_DistinctNames ==
    AlbCall =>
        \A i, j \in 1..Len(resources) :
            (resources[i].type = resources[j].type
                /\ resources[i].name = resources[j].name) => i = j

PresetClasses == SgClasses \ {"SecurityGroup"}

PresetDone == cls \in PresetClasses /\ pc = "done"

\* the ports of the created ingress rules, in order
IngressPorts ==
    [k \in 1..Len(CreatedSg.ingress) |-> CreatedSg.ingress[k].from_port]

\* port 22 when the caller did not switch SSH off
SshPort == IF Get(given, "allow_ssh", TRUE) THEN <<22>> ELSE <<>>

\* a created ingress rule is one of the rules the caller put in args
CallerRuleCreated ==
    /\ Has(given, "ingress_rules")
    /\ \E k \in 1..Len(CreatedSg.ingress), j \in 1..Len(given["ingress_rules"]) :
          /\ Canonical(CreatedSg.ingress[k], given["ingress_rules"][j])
          /\ Get(CreatedSg.ingress[k], "security_groups", <<>>) =
                IF Truthy(Get(given["ingress_rules"][j],
                              "source_security_group_id", NoResource))
                THEN <<given["ingress_rules"][j]["source_security_group_id"]>>
                ELSE <<>>

\* C29: the ingress rules of a group made by a preset are the preset's own,
\* tcp rules on one port each: Web 80, 443 and 22 only if allow_ssh;
\* Application app_port and 22 only if allow_ssh; Database one port;
\* Load-Balancer 80 and 443.  No ingress rule the caller put in args is
\* among them.
C29_PresetRulesOnly ==
    PresetDone =>
        /\ \A k \in 1..Len(CreatedSg.ingress) :
              /\ CreatedSg.ingress[k].protocol = "tcp"
              /\ CreatedSg.ingress[k].to_port = CreatedSg.ingress[k].from_port
        /\ cls = "WebSecurityGroup" => IngressPorts = <<80, 443>> \o SshPort
        /\ cls = "ApplicationSecurityGroup" =>
              IngressPorts = <<given["app_port"]>> \o SshPort
        /\ cls = "DatabaseSecurityGroup" => Len(IngressPorts) = 1
        /\ cls = "LoadBalancerSecurityGroup" => IngressPorts = <<80, 443>>
        /\ ~CallerRuleCreated

\* the caller passed an ingress rule for port 8080 from its own peer group
\* to the Application preset with app_port 8080 and SSH off: the one rule
\* created is the preset's, from the source group the preset was given
C29_Witness ==
    /\ PresetDone /\ cls = "ApplicationSecurityGroup"
    /\ Has(given, "ingress_rules")
    /\ given["ingress_rules"][1].from_port = 8080
    /\ Get(given["ingress_rules"][1], "source_security_group_id", NoResource)
          = <<"sg-peer">>
    /\ given["app_port"] = 8080
    /\ ~Get(given, "allow_ssh", TRUE)
    /\ Len(CreatedSg.ingress) = 1
    /\ Get(CreatedSg.ingress[1], "security_groups", <<>>) = << <<"sg-web">> >>

\* the Web preset was passed an ingress rule and created 80, 443 and 22
WebDroppedCallerRule ==
    /\ PresetDone /\ cls = "WebSecurityGroup"
    /\ Has(given, "ingress_rules")
    /\ IngressPorts = <<80, 443, 22>>

(***************************************************************************)
(* Properties of the program infra/ec2/__main__.py.                        *)
(***************************************************************************)
Ec2MainRuns == script.name = "infra/ec2"

\* the constructor call the program makes has been started
Ec2MainCalled == Ec2MainRuns /\ cls = "Ec2Instance"

Ec2MainUnconfiguredRaises ==
    /\ Ec2MainCalled /\ pc = "raised"
    /\ script.config = EmptyDict
    /\ given["instance_type"] = "t2.micro"
    /\ given["key_name"] = None

====
